---------------------------- MODULE Spec2Model ----------------------------
(***************************************************************************)
(* A model of the core of nebula-storage: the processor error tables, the  *)
(* BaseProcessor async fan-out, the meta daemon's cluster-id bootstrap     *)
(* (initKV), its main() and signal handler, the atomic edge writer         *)
(* (AddEdgesAtomicProcessor) and the index lookup planner                  *)
(* (LookupBaseProcessor).                                                  *)
(*                                                                         *)
(* The subsystems do not share state, so each has its own specification    *)
(* over the same variables: SpecTables, SpecProcessor, SpecMeta, SpecMain, *)
(* SpecSignal, SpecEdges and SpecLookup.  A specification leaves the       *)
(* variables of the other subsystems at their initial value.  SpecEdgesLive *)
(* and SpecMetaLive add the fairness that progress properties need.        *)
(***************************************************************************)
EXTENDS Integers, Sequences, FiniteSets, TLC

VARIABLES
    \* ---- error tables (pure functions applied to drawn inputs)
    tIn,              \* the arguments: [code, wr, isEdge]
    tOut,             \* the results:   [storageErr, to, wr]
    \* ---- BaseProcessor (also the base of AddEdgesAtomicProcessor)
    callingNum_,      \* BaseProcessor::callingNum_
    codes_,           \* BaseProcessor::codes_ : the per-partition failure list
    lock_,            \* BaseProcessor::lock_ : the set of callbacks holding it
    cb,               \* per partition: the position of its completion callback
    onFinishedCalls,  \* how many times onFinished() has been invoked
    \* ---- meta daemon bootstrap
    leaderOf,         \* the current leader of partition (0,0), or NoHost
    kvCommitted,      \* committed value of __meta_cluster_id_key__ (0: absent)
    kvLocal,          \* per replica: the value its local engine holds
    gClusterId,       \* per replica: the global gClusterId
    leader,           \* per replica: initKV's local variable `leader`
    mpc,              \* per replica: position in main/initKV
    putLog,           \* the cluster-id puts that took effect
    leaderChanges,    \* elections so far
    restarts,         \* restarts so far
    waited,           \* the replicas that took initKV's follower branch
    FLAGS_upgrade_meta_data, \* the operator flag upgrade_meta_data
    upgradeRuns,      \* per replica: whether it ran the v1->v2 upgrade, and as what
    rootCommitted,    \* whether a root user record is committed
    rootLocal,        \* per replica: whether its local engine holds one
    rootLog,          \* the root-user installs that took effect
    \* ---- atomic edge writer
    req,              \* the AddEdgesRequest being processed
    epc,              \* position of AddEdgesAtomicProcessor
    chains,           \* per submitted chain: its future's state
    processor_,       \* AddEdgesAtomicProcessor::processor_ ("null" or "indexed")
    txnCalls,         \* the addSamePartEdges calls made
    store,            \* per partition: the keys it holds
    stVidLen,         \* process(): how getSpaceVidLen ended
    encoded,          \* the encodeSingleEdgeProps calls made
    stIndex,          \* what getEdgeIndexes returned: failed, empty, nonEmpty
    \* ---- index lookup planner (LookupBaseProcessor)
    lreq,             \* the LookupIndexRequest
    lenv,             \* what the index and schema managers hold
    lpc,              \* position of the lookup processor
    isEdge_,          \* planContext_->isEdge_
    contexts_,        \* LookupBaseProcessor::contexts_
    yieldCols_,       \* LookupBaseProcessor::yieldCols_
    resultDataSet_,   \* resultDataSet_.colNames
    plan,             \* buildPlan's local `plan`: the nodes added so far
    IndexAggr,        \* buildPlan's local `IndexAggr`: its dependencies
    ctxIdx,           \* the context the loop of buildPlan is at
    checkRet,         \* what requestCheck returned
    planRet,          \* what buildPlan returned: [status, plan]
    \* ---- signal handling of the meta daemon
    dpc,              \* position of main() around serve()
    gServer,          \* the global gServer: "null" or the server's state
    jobMgr,           \* the job manager: "running" or "shutDown"
    sigLog            \* the signals handled: what the handler found and called

tabVars  == <<tIn, tOut>>
baseVars == <<callingNum_, codes_, lock_, cb, onFinishedCalls>>
mainVars == <<FLAGS_upgrade_meta_data, upgradeRuns, rootCommitted, rootLocal,
              rootLog>>
metaVars == <<leaderOf, kvCommitted, kvLocal, gClusterId, leader, mpc,
              putLog, leaderChanges, restarts, waited, mainVars>>
edgeVars == <<req, epc, chains, processor_, txnCalls, store, stVidLen,
              encoded, stIndex>>
lookupVars == <<lreq, lenv, lpc, isEdge_, contexts_, yieldCols_,
                resultDataSet_, plan, IndexAggr, ctxIdx, checkRet, planRet>>
signalVars == <<dpc, gServer, jobMgr, sigLog>>
vars     == <<tabVars, baseVars, metaVars, edgeVars, lookupVars, signalVars>>

-----------------------------------------------------------------------------
(***************************************************************************)
(* Enumerations.                                                           *)
(***************************************************************************)

\* kvstore::ResultCode: the codes toStorageErr names, and three it does not.
KVResultCodes ==
    {"SUCCEEDED", "ERR_LEADER_CHANGED", "ERR_SPACE_NOT_FOUND",
     "ERR_PART_NOT_FOUND", "ERR_CONSENSUS_ERROR", "ERR_CHECKPOINT_ERROR",
     "ERR_WRITE_BLOCK_ERROR", "ERR_PARTIAL_RESULT",
     "ERR_KEY_NOT_FOUND", "ERR_INVALID_ARGUMENT", "ERR_UNKNOWN"}

\* WriteResult of the row encoder; WR_OTHER stands for a value outside the
\* enumerators writeResultTo names (its default branch).
WriteResults ==
    {"SUCCEEDED", "UNKNOWN_FIELD", "NOT_NULLABLE", "TYPE_MISMATCH",
     "FIELD_UNSET", "OUT_OF_RANGE", "INCORRECT_VALUE", "WR_OTHER"}

\* No leader attached to a PartitionResult.
NoLeader == "noleader"

-----------------------------------------------------------------------------
(***************************************************************************)
(* The error tables.                                                       *)
(***************************************************************************)

\* A plausible slip: the two checkpoint rows exchanged.
toStorageErrSwapped(code) ==
    CASE code = "SUCCEEDED"             -> "SUCCEEDED"
      [] code = "ERR_LEADER_CHANGED"    -> "E_LEADER_CHANGED"
      [] code = "ERR_SPACE_NOT_FOUND"   -> "E_SPACE_NOT_FOUND"
      [] code = "ERR_PART_NOT_FOUND"    -> "E_PART_NOT_FOUND"
      [] code = "ERR_CONSENSUS_ERROR"   -> "E_CONSENSUS_ERROR"
      [] code = "ERR_CHECKPOINT_ERROR"  -> "E_CHECKPOINT_BLOCKED"
      [] code = "ERR_WRITE_BLOCK_ERROR" -> "E_FAILED_TO_CHECKPOINT"
      [] code = "ERR_PARTIAL_RESULT"    -> "E_PARTIAL_RESULT"
      [] OTHER                          -> "E_UNKNOWN"

\* ErrorCode toStorageErr(kvstore::ResultCode code)
toStorageErr(code) ==
    CASE code = "SUCCEEDED"             -> "SUCCEEDED"
      [] code = "ERR_LEADER_CHANGED"    -> "E_LEADER_CHANGED"
      [] code = "ERR_SPACE_NOT_FOUND"   -> "E_SPACE_NOT_FOUND"
      [] code = "ERR_PART_NOT_FOUND"    -> "E_PART_NOT_FOUND"
      [] code = "ERR_CONSENSUS_ERROR"   -> "E_CONSENSUS_ERROR"
      [] code = "ERR_CHECKPOINT_ERROR"  -> "E_FAILED_TO_CHECKPOINT"
      [] code = "ERR_WRITE_BLOCK_ERROR" -> "E_CHECKPOINT_BLOCKED"
      [] code = "ERR_PARTIAL_RESULT"    -> "E_PARTIAL_RESULT"
      [] OTHER                          -> "E_UNKNOWN"

\* CommonUtils::to(kvstore::ResultCode): the translation table of the
\* processors, which BaseProcessor::to delegates to.
CommonUtils_to(code) ==
    CASE code = "SUCCEEDED"             -> "SUCCEEDED"
      [] code = "ERR_LEADER_CHANGED"    -> "E_LEADER_CHANGED"
      [] code = "ERR_SPACE_NOT_FOUND"   -> "E_SPACE_NOT_FOUND"
      [] code = "ERR_PART_NOT_FOUND"    -> "E_PART_NOT_FOUND"
      [] code = "ERR_CONSENSUS_ERROR"   -> "E_CONSENSUS_ERROR"
      [] code = "ERR_CHECKPOINT_ERROR"  -> "E_FAILED_TO_CHECKPOINT"
      [] code = "ERR_WRITE_BLOCK_ERROR" -> "E_CHECKPOINT_BLOCKED"
      [] code = "ERR_PARTIAL_RESULT"    -> "E_PARTIAL_RESULT"
      [] OTHER                          -> "E_UNKNOWN"

\* ErrorCode BaseProcessor<RESP>::to(kvstore::ResultCode code)
to(code) == CommonUtils_to(code)

\* A plausible slip: the isEdge test of UNKNOWN_FIELD inverted.
writeResultToInverted(code, isEdge) ==
    CASE code = "SUCCEEDED"       -> "SUCCEEDED"
      [] code = "UNKNOWN_FIELD"   -> IF isEdge THEN "E_TAG_PROP_NOT_FOUND"
                                               ELSE "E_EDGE_PROP_NOT_FOUND"
      [] code = "NOT_NULLABLE"    -> "E_NOT_NULLABLE"
      [] code = "TYPE_MISMATCH"   -> "E_DATA_TYPE_MISMATCH"
      [] code = "FIELD_UNSET"     -> "E_FIELD_UNSET"
      [] code = "OUT_OF_RANGE"    -> "E_OUT_OF_RANGE"
      [] code = "INCORRECT_VALUE" -> "E_INVALID_FIELD_VALUE"
      [] OTHER                    -> "E_UNKNOWN"

\* ErrorCode BaseProcessor<RESP>::writeResultTo(WriteResult code, bool isEdge)
writeResultTo(code, isEdge) ==
    CASE code = "SUCCEEDED"       -> "SUCCEEDED"
      [] code = "UNKNOWN_FIELD"   -> IF isEdge THEN "E_EDGE_PROP_NOT_FOUND"
                                               ELSE "E_TAG_PROP_NOT_FOUND"
      [] code = "NOT_NULLABLE"    -> "E_NOT_NULLABLE"
      [] code = "TYPE_MISMATCH"   -> "E_DATA_TYPE_MISMATCH"
      [] code = "FIELD_UNSET"     -> "E_FIELD_UNSET"
      [] code = "OUT_OF_RANGE"    -> "E_OUT_OF_RANGE"
      [] code = "INCORRECT_VALUE" -> "E_INVALID_FIELD_VALUE"
      [] OTHER                    -> "E_UNKNOWN"

-----------------------------------------------------------------------------
(***************************************************************************)
(* SpecTables: the tables applied to every argument.                       *)
(***************************************************************************)

NotCalled == "not called"

TablesInit ==
    /\ tIn \in [code : KVResultCodes, wr : WriteResults, isEdge : BOOLEAN]
    /\ tOut = [storageErr |-> NotCalled, to |-> NotCalled, wr |-> NotCalled]

CallToStorageErr ==
    /\ tOut.storageErr = NotCalled
    /\ tOut' = [tOut EXCEPT !.storageErr = toStorageErr(tIn.code)]
    /\ UNCHANGED <<tIn, baseVars, metaVars, edgeVars, lookupVars, signalVars>>

CallTo ==
    /\ tOut.to = NotCalled
    /\ tOut' = [tOut EXCEPT !.to = to(tIn.code)]
    /\ UNCHANGED <<tIn, baseVars, metaVars, edgeVars, lookupVars, signalVars>>

CallWriteResultTo ==
    /\ tOut.wr = NotCalled
    /\ tOut' = [tOut EXCEPT !.wr = writeResultTo(tIn.wr, tIn.isEdge)]
    /\ UNCHANGED <<tIn, baseVars, metaVars, edgeVars, lookupVars, signalVars>>

-----------------------------------------------------------------------------
(***************************************************************************)
(* BaseProcessor: pushResultCode, handleErrorCode, handleLeaderChanged and *)
(* handleAsync.  A request is fanned out over the partitions 1..n; the     *)
(* store completes each operation once, on any thread, by calling          *)
(* handleAsync.                                                            *)
(***************************************************************************)

\* The largest fan-out of a request.
MaxParts == 3

\* The result codes the store passes to handleAsync(spaceId, partId,
\* kvstore::ResultCode) in this model.
AsyncKVCodes == {"SUCCEEDED", "ERR_LEADER_CHANGED", "ERR_CONSENSUS_ERROR"}

\* The codes a processor passes to handleAsync(spaceId, partId, ErrorCode).
AsyncErrorCodes == {"SUCCEEDED", "E_DATA_TYPE_MISMATCH"}

\* What kvstore_->partLeader(spaceId, partId) returns: the address of the
\* leader, or an error code.
PartLeaderResults ==
    [ok : {TRUE}, val : {"H"}] \cup [ok : {FALSE}, val : {"ERR_PART_NOT_FOUND"}]

\* partLeader is not called.
NoPartLeader == [ok |-> TRUE, val |-> NoLeader]

\* A plausible slip: the SUCCEEDED test dropped.
pushResultCodeAlways(codes, code, partId) ==
    Append(codes, [code |-> code, partId |-> partId, leader |-> NoLeader])

\* void BaseProcessor<RESP>::pushResultCode(ErrorCode code, PartitionID partId)
pushResultCode(codes, code, partId) ==
    IF code # "SUCCEEDED"
    THEN Append(codes, [code |-> code, partId |-> partId, leader |-> NoLeader])
    ELSE codes

\* void BaseProcessor<RESP>::pushResultCode(ErrorCode, PartitionID, HostAddr)
pushResultCodeLeader(codes, code, partId, host) ==
    IF code # "SUCCEEDED"
    THEN Append(codes, [code |-> code, partId |-> partId, leader |-> host])
    ELSE codes

\* A plausible slip: the leader is looked up and then not attached.
handleLeaderChangedNoLeader(codes, partId, addrRet) ==
    IF addrRet.ok
    THEN pushResultCode(codes, "E_LEADER_CHANGED", partId)
    ELSE pushResultCode(codes, to(addrRet.val), partId)

\* void BaseProcessor<RESP>::handleLeaderChanged(spaceId, partId), with
\* addrRet the result of partLeader(spaceId, partId).
handleLeaderChanged(codes, partId, addrRet) ==
    IF addrRet.ok
    THEN pushResultCodeLeader(codes, "E_LEADER_CHANGED", partId, addrRet.val)
    ELSE pushResultCode(codes, to(addrRet.val), partId)

\* void BaseProcessor<RESP>::handleErrorCode(code, spaceId, partId)
handleErrorCode(codes, code, partId, addrRet) ==
    IF code # "SUCCEEDED"
    THEN IF code = "ERR_LEADER_CHANGED"
         THEN handleLeaderChanged(codes, partId, addrRet)
         ELSE pushResultCode(codes, to(code), partId)
    ELSE codes

\* A plausible slip: an off-by-one in the test of the counter.
FinishedOffByOne(n) == n <= 1

\* if (this->callingNum_ == 0) { finished = true; }
Finished(n) == n = 0

BaseIdle ==
    /\ callingNum_ = 0
    /\ lock_ = {}
    /\ cb = <<>>

\* A processor that has dispatched n operations: callingNum_ = n.
ProcessorInit ==
    \E n \in 1..MaxParts :
        /\ callingNum_ = n
        /\ cb = [p \in 1..n |-> [pc |-> "inflight", kind |-> "kv",
                                 code |-> "SUCCEEDED", ret |-> NoPartLeader,
                                 reg |-> 0, finished |-> FALSE]]
        /\ codes_ = <<>>
        /\ lock_ = {}
        /\ onFinishedCalls = 0

\* A plausible slip: the callback does not wait for lock_.
HandleAsyncKVUnlocked(p) ==
    /\ cb[p].pc = "inflight"
    /\ lock_' = lock_ \cup {p}
    /\ \E code \in AsyncKVCodes :
         cb' = [cb EXCEPT ![p].pc = "handle", ![p].kind = "kv", ![p].code = code]
    /\ UNCHANGED <<callingNum_, codes_, onFinishedCalls>>
    /\ UNCHANGED <<tabVars, metaVars, edgeVars, lookupVars, signalVars>>

\* The store completes the operation of partition p with `code`: the
\* callback of doPut/doRemove/doRemoveRange calls handleAsync(.., ResultCode),
\* which takes lock_ (std::lock_guard) as soon as it is free.
HandleAsyncKV(p) ==
    /\ cb[p].pc = "inflight"
    /\ lock_ = {}
    /\ lock_' = {p}
    /\ \E code \in AsyncKVCodes :
         cb' = [cb EXCEPT ![p].pc = "handle", ![p].kind = "kv", ![p].code = code]
    /\ UNCHANGED <<callingNum_, codes_, onFinishedCalls>>
    /\ UNCHANGED <<tabVars, metaVars, edgeVars, lookupVars, signalVars>>

\* A processor completes partition p itself: handleAsync(.., ErrorCode),
\* which takes lock_ as soon as it is free.
HandleAsyncError(p) ==
    /\ cb[p].pc = "inflight"
    /\ lock_ = {}
    /\ lock_' = {p}
    /\ \E code \in AsyncErrorCodes :
         cb' = [cb EXCEPT ![p].pc = "handle", ![p].kind = "err", ![p].code = code]
    /\ UNCHANGED <<callingNum_, codes_, onFinishedCalls>>
    /\ UNCHANGED <<tabVars, metaVars, edgeVars, lookupVars, signalVars>>

\* handleErrorCode(code, spaceId, partId), which asks the store for the
\* leader when the code is ERR_LEADER_CHANGED.
HandleKV(p) ==
    /\ cb[p].pc = "handle"
    /\ cb[p].kind = "kv"
    /\ \E addrRet \in IF cb[p].code = "ERR_LEADER_CHANGED"
                      THEN PartLeaderResults ELSE {NoPartLeader} :
         /\ codes_' = handleErrorCode(codes_, cb[p].code, p, addrRet)
         /\ cb' = [cb EXCEPT ![p].pc = "load", ![p].ret = addrRet]
    /\ UNCHANGED <<callingNum_, lock_, onFinishedCalls>>
    /\ UNCHANGED <<tabVars, metaVars, edgeVars, lookupVars, signalVars>>

\* pushResultCode(code, partId) of the ErrorCode overload.
HandleError(p) ==
    /\ cb[p].pc = "handle"
    /\ cb[p].kind = "err"
    /\ codes_' = pushResultCode(codes_, cb[p].code, p)
    /\ cb' = [cb EXCEPT ![p].pc = "load"]
    /\ UNCHANGED <<callingNum_, lock_, onFinishedCalls>>
    /\ UNCHANGED <<tabVars, metaVars, edgeVars, lookupVars, signalVars>>

\* this->callingNum_--, the read of the counter
DecrementLoad(p) ==
    /\ cb[p].pc = "load"
    /\ cb' = [cb EXCEPT ![p].pc = "store", ![p].reg = callingNum_]
    /\ UNCHANGED <<callingNum_, codes_, lock_, onFinishedCalls>>
    /\ UNCHANGED <<tabVars, metaVars, edgeVars, lookupVars, signalVars>>

\* this->callingNum_--, the write of the counter, and the test that follows
DecrementStore(p) ==
    /\ cb[p].pc = "store"
    /\ callingNum_' = cb[p].reg - 1
    /\ cb' = [cb EXCEPT ![p].pc = "unlock", ![p].reg = 0,
                        ![p].finished = Finished(callingNum_')]
    /\ UNCHANGED <<codes_, lock_, onFinishedCalls>>
    /\ UNCHANGED <<tabVars, metaVars, edgeVars, lookupVars, signalVars>>

\* the end of the lock_guard's scope
Unlock(p) ==
    /\ cb[p].pc = "unlock"
    /\ lock_' = lock_ \ {p}
    /\ cb' = [cb EXCEPT ![p].pc = "after"]
    /\ UNCHANGED <<callingNum_, codes_, onFinishedCalls>>
    /\ UNCHANGED <<tabVars, metaVars, edgeVars, lookupVars, signalVars>>

\* if (finished) { this->onFinished(); }
FinishOrReturn(p) ==
    /\ cb[p].pc = "after"
    /\ onFinishedCalls' = IF cb[p].finished THEN onFinishedCalls + 1
                                            ELSE onFinishedCalls
    /\ cb' = [cb EXCEPT ![p].pc = "done"]
    /\ UNCHANGED <<callingNum_, codes_, lock_>>
    /\ UNCHANGED <<tabVars, metaVars, edgeVars, lookupVars, signalVars>>

-----------------------------------------------------------------------------
(***************************************************************************)
(* The meta daemon: initKV on every meta replica, over the replicated      *)
(* partition (0,0).  The store lets any replica read its local engine      *)
(* (FLAGS_check_leader = false) and lets only the leader write.            *)
(***************************************************************************)

\* The meta replicas, named by their place in the peer list.
Replicas == {1, 2, 3}

\* nebula::HostAddr("", 0): no leader elected yet.
NoHost == 0

\* Elections of partition (0,0) in one run.
MaxLeaderChanges == 3

\* Restarts of meta replicas in one run.
MaxRestarts == 1

\* FLAGS_meta_server_addrs as configured on replica r: the same peers, each
\* replica listing them from itself on.
FLAGS_meta_server_addrs(r) ==
    [i \in 1..Cardinality(Replicas) |->
        ((r + i - 2) % Cardinality(Replicas)) + 1]

RECURSIVE SortedSeq(_)
\* The elements of a finite set of numbers in increasing order.
SortedSeq(S) ==
    IF S = {} THEN <<>>
    ELSE LET m == CHOOSE x \in S : \A y \in S : x <= y
         IN  <<m>> \o SortedSeq(S \ {m})

RECURSIVE HashSeq(_, _)
\* A polynomial hash of a sequence of numbers, salted with `h`.
HashSeq(q, h) ==
    IF q = <<>> THEN h
    ELSE HashSeq(Tail(q), (h * 31 + Head(q)) % 65521)

\* ClusterIdMan::create(metaAddrs): a non-zero id from the canonical
\* (sorted) form of the peer list.
ClusterIdMan_create(metaAddrs) ==
    1 + HashSeq(SortedSeq({metaAddrs[i] : i \in DOMAIN metaAddrs}), 17)

\* ClusterIdMan::getClusterIdFromKV(kvstore, key) on replica r: the value
\* of the key in r's local engine, 0 when it is not there.
getClusterIdFromKV(r) == kvLocal[r]

\* A plausible slip: the id is derived from the replica's own address.
CreateFromLocalhost(r) == <<r>>

\* the argument of ClusterIdMan::create in initKV
CreateArg(r) == FLAGS_meta_server_addrs(r)

MetaIdle ==
    /\ leaderOf = NoHost
    /\ kvCommitted = 0
    /\ kvLocal = [r \in Replicas |-> 0]
    /\ gClusterId = [r \in Replicas |-> 0]
    /\ leader = [r \in Replicas |-> NoHost]
    /\ mpc = [r \in Replicas |-> "start"]
    /\ putLog = {}
    /\ leaderChanges = 0
    /\ restarts = 0
    /\ waited = {}
    /\ FLAGS_upgrade_meta_data = FALSE
    /\ upgradeRuns = [r \in Replicas |-> "none"]
    /\ rootCommitted = FALSE
    /\ rootLocal = [r \in Replicas |-> FALSE]
    /\ rootLog = {}

\* Every replica starts, with an empty data directory and no leader (and
\* the flags at their defaults).
MetaInit == MetaIdle

\* The store of replica r is running.
Running(r) == mpc[r] \notin {"start", "exit"}

\* A majority of the replicas of partition (0,0) is running.
Quorum == 2 * Cardinality({r \in Replicas : Running(r)}) > Cardinality(Replicas)

\* The leader after the process of replica r has gone.
WithoutHost(r) == IF leaderOf = r THEN NoHost ELSE leaderOf

\* kvstore->init()
StoreInit(r) ==
    /\ mpc[r] = "start"
    /\ \E ok \in BOOLEAN :
         mpc' = [mpc EXCEPT ![r] = IF ok THEN "waitLeader" ELSE "exit"]
    /\ UNCHANGED <<leaderOf, kvCommitted, kvLocal, gClusterId, leader,
                   putLog, leaderChanges, restarts, waited, mainVars>>
    /\ UNCHANGED <<tabVars, baseVars, edgeVars, lookupVars, signalVars>>

\* One round of the loop that waits for the leader: partLeader(0, 0)
\* fails, or returns the leader, which ends the loop when it is not the
\* zero address.
WaitLeader(r) ==
    /\ mpc[r] = "waitLeader"
    /\ \E ok \in BOOLEAN :
         IF ~ok
         THEN /\ mpc' = [mpc EXCEPT ![r] = "exit"]
              /\ leaderOf' = WithoutHost(r)
              /\ UNCHANGED leader
         ELSE /\ leader' = [leader EXCEPT ![r] = leaderOf]
              /\ mpc' = [mpc EXCEPT ![r] = IF leaderOf # NoHost
                                           THEN "getClusterId"
                                           ELSE "waitLeader"]
              /\ UNCHANGED leaderOf
    /\ UNCHANGED <<kvCommitted, kvLocal, gClusterId,
                   putLog, leaderChanges, restarts, waited, mainVars>>
    /\ UNCHANGED <<tabVars, baseVars, edgeVars, lookupVars, signalVars>>

\* gClusterId = getClusterIdFromKV(..), and the branch on it and on
\* leader == localhost
GetClusterId(r) ==
    /\ mpc[r] = "getClusterId"
    /\ gClusterId' = [gClusterId EXCEPT ![r] = getClusterIdFromKV(r)]
    /\ mpc' = [mpc EXCEPT ![r] =
                 IF gClusterId'[r] # 0 THEN "upgrade"
                 ELSE IF leader[r] = r THEN "create" ELSE "follower"]
    /\ waited' = IF mpc'[r] = "follower" THEN waited \cup {r} ELSE waited
    /\ UNCHANGED <<leaderOf, kvCommitted, kvLocal, leader,
                   putLog, leaderChanges, restarts, mainVars>>
    /\ UNCHANGED <<tabVars, baseVars, edgeVars, lookupVars, signalVars>>

\* Whether a put by replica r commits: r is the leader and has a quorum,
\* and the consensus layer does not fail (`ok`).
Commits(r, ok) == ok /\ leaderOf = r /\ Quorum

\* ClusterIdMan::persistInKV(kvstore, key, id) by replica r: a put through
\* the consensus layer.
persistInKV(r, id, ok) ==
    IF Commits(r, ok)
    THEN /\ kvCommitted' = id
         /\ kvLocal' = [kvLocal EXCEPT ![r] = id]
         /\ putLog' = putLog \cup {[by |-> r, hadValue |-> kvCommitted # 0,
                                    byLeader |-> leaderOf = r]}
    ELSE UNCHANGED <<kvCommitted, kvLocal, putLog>>

\* A plausible slip: the result of persistInKV is not tested.
CreateAndPersistUnchecked(r) ==
    /\ mpc[r] = "create"
    /\ gClusterId' = [gClusterId EXCEPT ![r] = ClusterIdMan_create(CreateArg(r))]
    /\ \E ok \in BOOLEAN : persistInKV(r, gClusterId'[r], ok)
    /\ mpc' = [mpc EXCEPT ![r] = "upgrade"]
    /\ UNCHANGED <<leaderOf, leader, leaderChanges, restarts, waited, mainVars>>
    /\ UNCHANGED <<tabVars, baseVars, edgeVars, lookupVars, signalVars>>

\* "I am leader, create cluster Id": create, persistInKV, and the return
\* of nullptr when the put fails.
CreateAndPersist(r) ==
    /\ mpc[r] = "create"
    /\ gClusterId' = [gClusterId EXCEPT ![r] = ClusterIdMan_create(CreateArg(r))]
    /\ \E ok \in BOOLEAN :
         /\ persistInKV(r, gClusterId'[r], ok)
         /\ mpc' = [mpc EXCEPT ![r] = IF Commits(r, ok) THEN "upgrade"
                                                        ELSE "exit"]
         /\ leaderOf' = IF Commits(r, ok) THEN leaderOf ELSE WithoutHost(r)
    /\ UNCHANGED <<leader, leaderChanges, restarts, waited, mainVars>>
    /\ UNCHANGED <<tabVars, baseVars, edgeVars, lookupVars, signalVars>>

\* A plausible slip: the key is re-read once, not until it is there.
FollowerWaitOnce(r) ==
    /\ mpc[r] = "follower"
    /\ gClusterId' = [gClusterId EXCEPT ![r] = getClusterIdFromKV(r)]
    /\ mpc' = [mpc EXCEPT ![r] = "upgrade"]
    /\ UNCHANGED <<leaderOf, kvCommitted, kvLocal, leader,
                   putLog, leaderChanges, restarts, waited, mainVars>>
    /\ UNCHANGED <<tabVars, baseVars, edgeVars, lookupVars, signalVars>>

\* "I am follower": one round of the loop that re-reads the key.
FollowerWait(r) ==
    /\ mpc[r] = "follower"
    /\ gClusterId' = [gClusterId EXCEPT ![r] = getClusterIdFromKV(r)]
    /\ mpc' = [mpc EXCEPT ![r] = IF gClusterId'[r] = 0 THEN "follower"
                                                       ELSE "upgrade"]
    /\ UNCHANGED <<leaderOf, kvCommitted, kvLocal, leader,
                   putLog, leaderChanges, restarts, waited, mainVars>>
    /\ UNCHANGED <<tabVars, baseVars, edgeVars, lookupVars, signalVars>>

\* The end of initKV: upgradeMetaDataV1toV2 when the flag is set, then
\* "Nebula store init succeeded", return kvstore.
ReturnStore(r) ==
    /\ mpc[r] = "upgrade"
    /\ upgradeRuns' =
         IF FLAGS_upgrade_meta_data
         THEN [upgradeRuns EXCEPT ![r] = IF leaderOf = r THEN "leader"
                                                         ELSE "follower"]
         ELSE upgradeRuns
    /\ mpc' = [mpc EXCEPT ![r] = "inited"]
    /\ UNCHANGED <<leaderOf, kvCommitted, kvLocal, gClusterId, leader,
                   putLog, leaderChanges, restarts, waited,
                   FLAGS_upgrade_meta_data, rootCommitted, rootLocal, rootLog>>
    /\ UNCHANGED <<tabVars, baseVars, edgeVars, lookupVars, signalVars>>

\* The consensus layer elects replica r: its store is running, a quorum
\* votes, and it holds every committed write.
Elect(r) ==
    /\ Running(r)
    /\ Quorum
    /\ kvLocal[r] = kvCommitted
    /\ rootLocal[r] = rootCommitted
    /\ leaderOf # r
    /\ leaderChanges < MaxLeaderChanges
    /\ leaderOf' = r
    /\ leaderChanges' = leaderChanges + 1
    /\ UNCHANGED <<kvCommitted, kvLocal, gClusterId, leader, mpc, putLog,
                   restarts, waited, mainVars>>
    /\ UNCHANGED <<tabVars, baseVars, edgeVars, lookupVars, signalVars>>

\* The consensus layer brings the local engine of replica r up to date.
Replicate(r) ==
    /\ Running(r)
    /\ kvLocal[r] # kvCommitted \/ rootLocal[r] # rootCommitted
    /\ kvLocal' = [kvLocal EXCEPT ![r] = kvCommitted]
    /\ rootLocal' = [rootLocal EXCEPT ![r] = rootCommitted]
    /\ UNCHANGED <<leaderOf, kvCommitted, gClusterId, leader, mpc,
                   putLog, leaderChanges, restarts, waited,
                   FLAGS_upgrade_meta_data, upgradeRuns, rootCommitted,
                   rootLog>>
    /\ UNCHANGED <<tabVars, baseVars, edgeVars, lookupVars, signalVars>>

\* The process of replica r is restarted: its globals are fresh, its data
\* directory is kept, and it is no longer the leader.
Restart(r) ==
    /\ mpc[r] # "start"
    /\ restarts < MaxRestarts
    /\ restarts' = restarts + 1
    /\ mpc' = [mpc EXCEPT ![r] = "start"]
    /\ gClusterId' = [gClusterId EXCEPT ![r] = 0]
    /\ leader' = [leader EXCEPT ![r] = NoHost]
    /\ leaderOf' = WithoutHost(r)
    /\ waited' = waited \ {r}
    /\ UNCHANGED <<kvCommitted, kvLocal, putLog, leaderChanges, mainVars>>
    /\ UNCHANGED <<tabVars, baseVars, edgeVars, lookupVars, signalVars>>

-----------------------------------------------------------------------------
(***************************************************************************)
(* The meta daemon after initKV: main() up to gServer->serve().            *)
(***************************************************************************)

\* Every replica starts, with an empty data directory and no leader; the
\* operator has set upgrade_meta_data.
MainInit ==
    /\ leaderOf = NoHost
    /\ kvCommitted = 0
    /\ kvLocal = [r \in Replicas |-> 0]
    /\ gClusterId = [r \in Replicas |-> 0]
    /\ leader = [r \in Replicas |-> NoHost]
    /\ mpc = [r \in Replicas |-> "start"]
    /\ putLog = {}
    /\ leaderChanges = 0
    /\ restarts = 0
    /\ waited = {}
    /\ FLAGS_upgrade_meta_data = TRUE
    /\ upgradeRuns = [r \in Replicas |-> "none"]
    /\ rootCommitted = FALSE
    /\ rootLocal = [r \in Replicas |-> FALSE]
    /\ rootLog = {}

\* main(): the web service and the job manager are initialised, then
\* partLeader(0, 0) is asked; "Only leader part needed": the root user is
\* looked at when the answer is localhost.
MainPartLeader(r) ==
    /\ mpc[r] = "inited"
    /\ \E ok \in BOOLEAN :
         IF ~ok
         THEN /\ mpc' = [mpc EXCEPT ![r] = "exit"]
              /\ leaderOf' = WithoutHost(r)
         ELSE /\ mpc' = [mpc EXCEPT ![r] = IF leaderOf = r THEN "isUserExists"
                                                            ELSE "setupSignal"]
              /\ UNCHANGED leaderOf
    /\ UNCHANGED <<kvCommitted, kvLocal, gClusterId, leader, putLog,
                   leaderChanges, restarts, waited, mainVars>>
    /\ UNCHANGED <<tabVars, baseVars, edgeVars, lookupVars, signalVars>>

\* RootUserMan::isUserExists(kvstore): a read of the local engine.
IsUserExists(r) ==
    /\ mpc[r] = "isUserExists"
    /\ mpc' = [mpc EXCEPT ![r] = IF rootLocal[r] THEN "setupSignal"
                                                 ELSE "initRootUser"]
    /\ UNCHANGED <<leaderOf, kvCommitted, kvLocal, gClusterId, leader, putLog,
                   leaderChanges, restarts, waited, mainVars>>
    /\ UNCHANGED <<tabVars, baseVars, edgeVars, lookupVars, signalVars>>

\* RootUserMan::initRootUser(kvstore): a put through the consensus layer;
\* main returns EXIT_FAILURE when it fails.
InitRootUser(r) ==
    /\ mpc[r] = "initRootUser"
    /\ \E ok \in BOOLEAN :
         IF Commits(r, ok)
         THEN /\ rootCommitted' = TRUE
              /\ rootLocal' = [rootLocal EXCEPT ![r] = TRUE]
              /\ rootLog' = rootLog \cup {[by |-> r,
                                           byLeader |-> leaderOf = r,
                                           hadUser |-> rootCommitted,
                                           idSet |-> kvCommitted # 0]}
              /\ mpc' = [mpc EXCEPT ![r] = "setupSignal"]
              /\ UNCHANGED leaderOf
         ELSE /\ mpc' = [mpc EXCEPT ![r] = "exit"]
              /\ leaderOf' = WithoutHost(r)
              /\ UNCHANGED <<rootCommitted, rootLocal, rootLog>>
    /\ UNCHANGED <<kvCommitted, kvLocal, gClusterId, leader, putLog,
                   leaderChanges, restarts, waited, FLAGS_upgrade_meta_data,
                   upgradeRuns>>
    /\ UNCHANGED <<tabVars, baseVars, edgeVars, lookupVars, signalVars>>

\* setupSignalHandler(), then the Thrift server is created and serves.
Serve(r) ==
    /\ mpc[r] = "setupSignal"
    /\ \E ok \in BOOLEAN :
         IF ok
         THEN /\ mpc' = [mpc EXCEPT ![r] = "serving"]
              /\ UNCHANGED leaderOf
         ELSE /\ mpc' = [mpc EXCEPT ![r] = "exit"]
              /\ leaderOf' = WithoutHost(r)
    /\ UNCHANGED <<kvCommitted, kvLocal, gClusterId, leader, putLog,
                   leaderChanges, restarts, waited, mainVars>>
    /\ UNCHANGED <<tabVars, baseVars, edgeVars, lookupVars, signalVars>>

-----------------------------------------------------------------------------
(***************************************************************************)
(* The atomic edge writer: AddEdgesAtomicProcessor::process and            *)
(* processByChain, over a space of two partitions, with the transaction    *)
(* manager as its contract states it.                                      *)
(***************************************************************************)

\* The partitions of the space and its vertex ids.
Parts == {1, 2}
Vids == {"A", "B"}

\* The most edges one request carries.
MaxEdges == 2

\* metaClient_->partId(spaceId_, vid) when it succeeds: the partition of vid.
PartOf(vid) == IF vid = "A" THEN 1 ELSE 2

\* What happens to one edge of the request: "ok", or the step that fails
\* for it: partId() ("noPart"), getEdgeSchema() ("noSchema"), encodeRowVal()
\* ("encodeFault").
EdgeOutcomes == {"ok", "noPart", "noSchema", "encodeFault"}

\* The edges a client lists under partition p: their source is in p.
EdgesOf(p) ==
    {e \in [src : Vids, dst : Vids, outcome : EdgeOutcomes] :
        PartOf(e.src) = p}

RECURSIVE SeqsOfLen(_, _)
\* The sequences over S of length n.
SeqsOfLen(S, n) ==
    IF n = 0 THEN {<<>>}
    ELSE {Append(q, x) : q \in SeqsOfLen(S, n - 1), x \in S}

\* The sequences over S of length at most n.
SeqsUpTo(S, n) == UNION {SeqsOfLen(S, k) : k \in 0..n}

\* AddEdgesRequest.parts: the partitions listed, and the edges of each, at
\* most MaxEdges in all.  A partition may be listed with no edge.
Requests ==
    UNION {
        {[listed |-> L, edges |-> [p \in Parts |-> IF p = 1 THEN q1 ELSE q2]] :
            q1 \in SeqsOfLen(EdgesOf(1), k),
            q2 \in SeqsUpTo(EdgesOf(2), MaxEdges - k),
            L \in SUBSET Parts}
        : k \in 0..MaxEdges}

\* The requests whose edges are all under a listed partition.
WellFormed(r) == \A p \in Parts \ r.listed : r.edges[p] = <<>>

\* TransactionUtils::edgeKey(vIdLen, part, edge key): the out-edge key.
edgeKey(part, e) == <<part, e.src, "+", e.dst>>

\* The in-edge key the transaction manager derives from an out-edge key,
\* for the partition `part`.
reverseKey(part, k) == <<part, k[4], "-", k[2]>>

\* ErrorCode AddEdgesAtomicProcessor::encodeSingleEdgeProps(e, encodedVal)
encodeSingleEdgeProps(e) ==
    IF e.outcome = "noSchema" THEN "E_SPACE_NOT_FOUND"
    ELSE IF e.outcome = "encodeFault" THEN "E_DATA_TYPE_MISMATCH"
    ELSE "SUCCEEDED"

\* The code the inner loop of processByChain finds for one edge.
EdgeCode(e) ==
    IF e.outcome = "noPart" THEN "E_SPACE_NOT_FOUND"
    ELSE encodeSingleEdgeProps(e)

\* The index of the first edge of q at which the inner loop breaks, or
\* Len(q) + 1.
FirstFailure(q) ==
    IF \E i \in 1..Len(q) : EdgeCode(q[i]) # "SUCCEEDED"
    THEN CHOOSE i \in 1..Len(q) :
            /\ EdgeCode(q[i]) # "SUCCEEDED"
            /\ \A j \in 1..(i - 1) : EdgeCode(q[j]) = "SUCCEEDED"
    ELSE Len(q) + 1

\* A plausible slip: the outer loop is left at the first failing partition.
failedPartLowestOnly(r) ==
    LET failing == {p \in r.listed : FirstFailure(r.edges[p]) <= Len(r.edges[p])}
        first == {p \in failing : \A q \in failing : p <= q}
    IN  [p \in first |-> EdgeCode(r.edges[p][FirstFailure(r.edges[p])])]

\* A plausible slip: only a failure of partId() is kept in failedPart.
failedPartResolutionOnly(r) ==
    LET failing == {p \in r.listed :
                      /\ FirstFailure(r.edges[p]) <= Len(r.edges[p])
                      /\ r.edges[p][FirstFailure(r.edges[p])].outcome
                             = "noPart"}
    IN  [p \in failing |-> "E_SPACE_NOT_FOUND"]

\* failedPart after the loops: the partitions with a failing edge, each
\* with the code of its first failing edge.
failedPart(r) ==
    LET failing == {p \in r.listed : FirstFailure(r.edges[p]) <= Len(r.edges[p])}
    IN  [p \in failing |-> EdgeCode(r.edges[p][FirstFailure(r.edges[p])])]

\* The faults encodeRowVal reports in wRet when it fails.
WriteFaults ==
    {"UNKNOWN_FIELD", "NOT_NULLABLE", "TYPE_MISMATCH", "FIELD_UNSET",
     "OUT_OF_RANGE", "INCORRECT_VALUE"}

\* The partitions whose inner loop breaks on a failure of encodeRowVal.
EncodeFaultParts(r) ==
    {p \in r.listed :
        /\ FirstFailure(r.edges[p]) <= Len(r.edges[p])
        /\ r.edges[p][FirstFailure(r.edges[p])].outcome = "encodeFault"}

\* The calls of encodeSingleEdgeProps the loops make: for every edge up to
\* the break of its partition, unless partId() failed for it.  Each call
\* with the wRet of encodeRowVal (NotCalled when the schema was missing)
\* and the code returned.
EncodeCalls(r, wRet) ==
    UNION {
        {[part |-> p, idx |-> i,
          wRet |-> IF r.edges[p][i].outcome = "encodeFault" THEN wRet[p]
                   ELSE IF r.edges[p][i].outcome = "noSchema" THEN NotCalled
                   ELSE "SUCCEEDED",
          code |-> encodeSingleEdgeProps(r.edges[p][i])] :
            i \in {j \in 1..Len(r.edges[p]) :
                      /\ j <= FirstFailure(r.edges[p])
                      /\ r.edges[p][j].outcome # "noPart"}}
        : p \in r.listed}

\* A plausible slip: the chain is keyed by the local partition twice.
ChainIdLocalOnly(localPart, remotePart) == <<localPart, localPart>>

\* ChainId cid{localPart, remotePart};
ChainId(localPart, remotePart) == <<localPart, remotePart>>

\* The edges of partition p the inner loop reaches before it breaks.
Reached(r, p) == SubSeq(r.edges[p], 1, FirstFailure(r.edges[p]) - 1)

\* A plausible slip: the edge goes into every chain of its partition.
InChainAnyRemote(p, e, cid) == cid[1] = p

\* Whether the inner loop puts the edge e of partition p into chain cid.
InChain(p, e, cid) == ChainId(p, PartOf(e.dst)) = cid

RECURSIVE KeysOf(_, _, _)
\* The keys of the edges of q that go into chain cid, in order.
KeysOf(q, p, cid) ==
    IF q = <<>> THEN <<>>
    ELSE (IF InChain(p, Head(q), cid) THEN <<edgeKey(p, Head(q))>> ELSE <<>>)
         \o KeysOf(Tail(q), p, cid)

\* edgesByChain after the loops: per chain, the keys emplaced into it.
edgesByChain(r) ==
    LET cids == UNION {{ChainId(p, PartOf(Reached(r, p)[i].dst)) :
                          i \in 1..Len(Reached(r, p))} : p \in r.listed}
    IN  [cid \in cids |-> KeysOf(Reached(r, cid[1]), cid[1], cid)]

RECURSIVE Orders(_)
\* The orders in which an unordered_map may enumerate the set S.
Orders(S) ==
    IF S = {} THEN {<<>>}
    ELSE UNION {{<<x>> \o q : q \in Orders(S \ {x})} : x \in S}

\* A plausible slip: the loop is left after the first partition.
PushEachFirstOnly(codes, order, codeOf) ==
    IF order = <<>> THEN codes
    ELSE pushResultCode(codes, codeOf[Head(order)], Head(order))

RECURSIVE PushEach(_, _, _)
\* pushResultCode(codeOf[p], p) for the partitions of `order`, in order.
PushEach(codes, order, codeOf) ==
    IF order = <<>> THEN codes
    ELSE PushEach(pushResultCode(codes, codeOf[Head(order)], Head(order)),
                  Tail(order), codeOf)

\* The codes a failed addSamePartEdges resolves to in this model.
TxnFailCodes == {"E_LEADER_CHANGED", "E_CONSENSUS_ERROR"}

EdgeIdle ==
    /\ req = [listed |-> {}, edges |-> [p \in Parts |-> <<>>]]
    /\ epc = "idle"
    /\ chains = <<>>
    /\ processor_ = "null"
    /\ txnCalls = {}
    /\ store = [p \in Parts |-> {}]
    /\ stVidLen = "unset"
    /\ encoded = {}
    /\ stIndex = "unset"

\* A processor that has received a request, over an empty store.
EdgeInit ==
    /\ req \in {r \in Requests : WellFormed(r)}
    /\ epc = "process"
    /\ chains = <<>>
    /\ processor_ = "null"
    /\ txnCalls = {}
    /\ store = [p \in Parts |-> {}]
    /\ stVidLen = "unset"
    /\ encoded = {}
    /\ stIndex = "unset"
    /\ codes_ = <<>>
    /\ onFinishedCalls = 0

\* process(): getSpaceVidLen fails; E_INVALID_SPACEVIDLEN for every part.
ProcessVidLenFailed ==
    /\ epc = "process"
    /\ \E order \in Orders(req.listed) :
         codes_' = PushEach(codes_, order,
                            [p \in req.listed |-> "E_INVALID_SPACEVIDLEN"])
    /\ onFinishedCalls' = onFinishedCalls + 1
    /\ epc' = "done"
    /\ stVidLen' = "failed"
    /\ UNCHANGED <<req, chains, processor_, txnCalls, store, encoded, stIndex>>
    /\ UNCHANGED <<callingNum_, lock_, cb, tabVars, metaVars, lookupVars, signalVars>>

\* processByChain(): some edge fails; the codes of failedPart are pushed
\* and the request is finished.
ProcessAborted ==
    /\ epc = "process"
    /\ DOMAIN failedPart(req) # {}
    /\ \E order \in Orders(DOMAIN failedPart(req)) :
         codes_' = PushEach(codes_, order, failedPart(req))
    /\ \E wRet \in [EncodeFaultParts(req) -> WriteFaults] :
         encoded' = EncodeCalls(req, wRet)
    /\ onFinishedCalls' = onFinishedCalls + 1
    /\ epc' = "done"
    /\ stVidLen' = "ok"
    /\ UNCHANGED <<req, chains, processor_, txnCalls, store, stIndex>>
    /\ UNCHANGED <<callingNum_, lock_, cb, tabVars, metaVars, lookupVars, signalVars>>

\* processByChain(): getEdgeIndexes fails; E_SPACE_NOT_FOUND for every part.
ProcessIndexFailed ==
    /\ epc = "process"
    /\ DOMAIN failedPart(req) = {}
    /\ \E order \in Orders(req.listed) :
         codes_' = PushEach(codes_, order,
                            [p \in req.listed |-> "E_SPACE_NOT_FOUND"])
    /\ \E wRet \in [EncodeFaultParts(req) -> WriteFaults] :
         encoded' = EncodeCalls(req, wRet)
    /\ onFinishedCalls' = onFinishedCalls + 1
    /\ epc' = "done"
    /\ stVidLen' = "ok"
    /\ stIndex' = "failed"
    /\ UNCHANGED <<req, chains, processor_, txnCalls, store>>
    /\ UNCHANGED <<callingNum_, lock_, cb, tabVars, metaVars, lookupVars, signalVars>>

\* A plausible slip: the inner processor is created whatever the indexes.
resetProcessorAlways(idx) == "indexed"

\* if (!stIndex.value().empty()) processor_.reset(...): the inner processor
\* handed to addSamePartEdges, for the indexes getEdgeIndexes returned.
resetProcessor(idx) == IF idx # "empty" THEN "indexed" ELSE "null"

\* processByChain(): every edge is encoded; each chain is submitted with
\* addSamePartEdges, with the inner processor when the space has an edge
\* index, and collectAll waits for the futures.
ProcessSubmitted ==
    /\ epc = "process"
    /\ DOMAIN failedPart(req) = {}
    /\ \E idx \in {"empty", "nonEmpty"} :
         /\ stIndex' = idx
         /\ processor_' = resetProcessor(idx)
         /\ txnCalls' = {[localPart |-> cid[1], remotePart |-> cid[2],
                          localData |-> edgesByChain(req)[cid],
                          processor |-> processor_'] :
                            cid \in DOMAIN edgesByChain(req)}
    /\ chains' = [cid \in DOMAIN edgesByChain(req) |->
                    [state |-> "inflight", hasValue |-> FALSE,
                     code |-> "SUCCEEDED", committed |-> FALSE,
                     seen |-> <<>>]]
    /\ \E wRet \in [EncodeFaultParts(req) -> WriteFaults] :
         encoded' = EncodeCalls(req, wRet)
    /\ epc' = "waiting"
    /\ stVidLen' = "ok"
    /\ UNCHANGED <<req, store, codes_, onFinishedCalls>>
    /\ UNCHANGED <<callingNum_, lock_, cb, tabVars, metaVars, lookupVars, signalVars>>

\* TransactionManager::addSamePartEdges commits the chain: the out-edge
\* keys in the local partition and the in-edge keys in the remote one,
\* together.
CommitChain(cid) ==
    LET keys == edgesByChain(req)[cid]
    IN  store' = [p \in Parts |->
                    store[p]
                    \cup (IF p = cid[1]
                          THEN {keys[i] : i \in 1..Len(keys)} ELSE {})
                    \cup (IF p = cid[2]
                          THEN {reverseKey(p, keys[i]) : i \in 1..Len(keys)}
                          ELSE {})]

\* The future of chain cid resolves: to SUCCEEDED after the commit, to an
\* error code with nothing written, or without a value.
TxnResolve(cid) ==
    /\ epc = "waiting"
    /\ chains[cid].state = "inflight"
    /\ \/ /\ CommitChain(cid)
          /\ chains' = [chains EXCEPT ![cid].state = "resolved",
                                      ![cid].hasValue = TRUE,
                                      ![cid].committed = TRUE]
       \/ /\ \E code \in TxnFailCodes :
               chains' = [chains EXCEPT ![cid].state = "resolved",
                                        ![cid].hasValue = TRUE,
                                        ![cid].code = code]
          /\ UNCHANGED store
       \/ /\ chains' = [chains EXCEPT ![cid].state = "resolved"]
          /\ UNCHANGED store
    /\ UNCHANGED <<req, epc, processor_, txnCalls, codes_, onFinishedCalls,
                   stVidLen, encoded, stIndex>>
    /\ UNCHANGED <<callingNum_, lock_, cb, tabVars, metaVars, lookupVars, signalVars>>

\* The code the thenTry continuation computes from the Try `t`.
ThenTryCode(t) ==
    IF ~t.hasValue THEN "E_UNKNOWN"
    ELSE IF t.code # "SUCCEEDED" THEN t.code
    ELSE "SUCCEEDED"

\* The thenTry continuation of chain cid starts: it computes the code and,
\* for a failure, enters pushResultCode, which reads codes_ without lock_.
ThenTryBegin(cid) ==
    /\ epc = "waiting"
    /\ chains[cid].state = "resolved"
    /\ chains' = IF ThenTryCode(chains[cid]) # "SUCCEEDED"
                 THEN [chains EXCEPT ![cid].state = "pushing",
                                     ![cid].seen = codes_]
                 ELSE [chains EXCEPT ![cid].state = "recorded"]
    /\ UNCHANGED <<req, epc, processor_, txnCalls, store, codes_,
                   onFinishedCalls, stVidLen, encoded, stIndex>>
    /\ UNCHANGED <<callingNum_, lock_, cb, tabVars, metaVars, lookupVars, signalVars>>

\* The continuation's pushResultCode(code, localPart) writes codes_.
ThenTryPush(cid) ==
    /\ epc = "waiting"
    /\ chains[cid].state = "pushing"
    /\ codes_' = pushResultCode(chains[cid].seen, ThenTryCode(chains[cid]),
                                cid[1])
    /\ chains' = [chains EXCEPT ![cid].state = "recorded", ![cid].seen = <<>>]
    /\ UNCHANGED <<req, epc, processor_, txnCalls, store, onFinishedCalls,
                   stVidLen, encoded, stIndex>>
    /\ UNCHANGED <<callingNum_, lock_, cb, tabVars, metaVars, lookupVars, signalVars>>

\* A plausible slip: collectAny in the place of collectAll.
AnyFutureDone == \E cid \in DOMAIN chains : chains[cid].state = "recorded"

\* A plausible slip: an empty list of futures never completes.
AllFuturesDoneNonEmpty ==
    /\ DOMAIN chains # {}
    /\ \A cid \in DOMAIN chains : chains[cid].state = "recorded"

\* folly::collectAll(futures): every future, continuation included, is done.
AllFuturesDone == \A cid \in DOMAIN chains : chains[cid].state = "recorded"

\* collectAll(futures).via(executor).thenValue: onFinished().
CollectAllFinished ==
    /\ epc = "waiting"
    /\ AllFuturesDone
    /\ onFinishedCalls' = onFinishedCalls + 1
    /\ epc' = "done"
    /\ UNCHANGED <<req, chains, processor_, txnCalls, store, codes_,
                   stVidLen, encoded, stIndex>>
    /\ UNCHANGED <<callingNum_, lock_, cb, tabVars, metaVars, lookupVars, signalVars>>

-----------------------------------------------------------------------------
(***************************************************************************)
(* The index lookup planner: LookupBaseProcessor::requestCheck and         *)
(* buildPlan, over a catalogue of two indexes.                             *)
(***************************************************************************)

\* The most contexts and the most return columns one request carries.
MaxContexts == 2
MaxCols == 2

\* The property names of the tag or edge, and the index ids a context names.
Cols == {"c1", "c2", "c3"}
IndexIds == {1, 2}

\* index.value()->get_fields(): the field names of an index, in order.
get_fields(indexId) == IF indexId = 1 THEN <<"c1", "c2">> ELSE <<"c2", "c3">>

\* IndexQueryContext.filter: unset, set and empty, or set to an expression.
Filters ==
    {[isset |-> FALSE, val |-> ""], [isset |-> TRUE, val |-> ""],
     [isset |-> TRUE, val |-> "c1 > 1"]}

\* cpp2::IndexQueryContext
QueryContexts == [index_id : IndexIds, filter : Filters]

\* The optional return_columns when it is not set.
NoColumns == [isset |-> FALSE, val |-> <<>>]

\* cpp2::LookupIndexRequest
LookupRequests ==
    [is_edge : BOOLEAN,
     contexts : SeqsUpTo(QueryContexts, MaxContexts),
     return_columns :
         {NoColumns}
         \cup {[isset |-> TRUE, val |-> q] : q \in SeqsUpTo(Cols, MaxCols)}]

\* What the managers hold: per index id whether it is an edge index, a tag
\* index or absent, and whether the schema of tag_or_edge_id and its name
\* are found.
LookupEnvs ==
    [indexes : [IndexIds -> {"edge", "tag", "none"}],
     schema : {"ok", "noSchema", "noName"}]

\* Status values of buildPlan, and the absent plan of a failed StatusOr.
StatusOK == "OK"
StatusIndexNotFound == "IndexNotFound"
StatusError == "Error: Index scan plan error"
NoPlan == <<>>
NoStatus == "none"

\* A plan node: its kind, the context it was built for (0: the aggregate)
\* and the nodes it depends on, in addDependency order.
Node(kind, ctx, deps) == [kind |-> kind, ctx |-> ctx, deps |-> deps]
NodeId(n) == <<n.ctx, n.kind>>

\* The unique_ptr returned by a failed buildPlanWith*.
nullptr == [kind |-> "nullptr", ctx |-> 0, deps |-> <<>>]

\* A plausible slip: the yield columns ahead of the key columns.
colNamesYieldFirst(isEdge, yieldCols) ==
    yieldCols \o (IF isEdge THEN <<"_src", "_ranking", "_dst">> ELSE <<"_vid">>)

\* requestCheck: resultDataSet_.colNames after the two emplace loops.
colNames(isEdge, yieldCols) ==
    (IF isEdge THEN <<"_src", "_ranking", "_dst">> ELSE <<"_vid">>) \o yieldCols

\* A plausible slip: the filter counts as soon as it is set.
needFilterIsset(ctx) == ctx.filter.isset

\* auto needFilter = ctx.__isset.filter && !ctx.get_filter().empty();
needFilter(ctx) == ctx.filter.isset /\ ctx.filter.val # ""

\* A plausible slip: only the first yield column is looked up.
needDataFirstOnly(yieldCols, fields) ==
    /\ yieldCols # <<>>
    /\ \A j \in 1..Len(fields) : fields[j] # yieldCols[1]

\* needData after the loop over yieldCols_: some yield column is no field
\* of the index.
needData(yieldCols, fields) ==
    \E i \in 1..Len(yieldCols) :
        \A j \in 1..Len(fields) : fields[j] # yieldCols[i]

\* A plausible slip: the kind of the lookup is not used.
getIndexAnyKind(env, isEdge, indexId) == env.indexes[indexId] # "none"

\* indexMan_->getEdgeIndex / getTagIndex (spaceId_, indexId) is ok().
getIndex(env, isEdge, indexId) ==
    env.indexes[indexId] = (IF isEdge THEN "edge" ELSE "tag")

\* IndexEdgeNode for an edge lookup, IndexVertexNode otherwise.
FetchKind(isEdge) == IF isEdge THEN "IndexEdge" ELSE "IndexVertex"

\* buildPlanBasic: the nodes added to the plan and the output returned.
buildPlanBasic(i) ==
    LET indexScan == Node("IndexScan", i, <<>>)
        output == Node("IndexOutput", i, <<NodeId(indexScan)>>)
    IN  [added |-> <<indexScan>>, out |-> output]

\* A plausible slip: the vertex node whatever the kind of the lookup.
buildPlanWithDataVertexOnly(i, env, isEdge) ==
    IF env.schema # "ok" THEN [added |-> <<>>, out |-> nullptr]
    ELSE LET indexScan == Node("IndexScan", i, <<>>)
             fetch == Node("IndexVertex", i, <<NodeId(indexScan)>>)
             output == Node("IndexOutput", i, <<NodeId(fetch)>>)
         IN  [added |-> <<indexScan, fetch>>, out |-> output]

\* buildPlanWithData: nullptr when the schema or its name is not found.
buildPlanWithData(i, env, isEdge) ==
    IF env.schema = "noSchema" THEN [added |-> <<>>, out |-> nullptr]
    ELSE IF env.schema = "noName" THEN [added |-> <<>>, out |-> nullptr]
    ELSE LET indexScan == Node("IndexScan", i, <<>>)
             fetch == Node(FetchKind(isEdge), i, <<NodeId(indexScan)>>)
             output == Node("IndexOutput", i, <<NodeId(fetch)>>)
         IN  [added |-> <<indexScan, fetch>>, out |-> output]

\* buildPlanWithFilter
buildPlanWithFilter(i) ==
    LET indexScan == Node("IndexScan", i, <<>>)
        filter == Node("IndexFilter", i, <<NodeId(indexScan)>>)
        output == Node("IndexOutput", i, <<NodeId(filter)>>)
    IN  [added |-> <<indexScan, filter>>, out |-> output]

\* A plausible slip: the fetch node is handed to the plan after the filter.
buildPlanWithDataAndFilterFetchLast(i, env, isEdge) ==
    IF env.schema # "ok" THEN [added |-> <<>>, out |-> nullptr]
    ELSE LET indexScan == Node("IndexScan", i, <<>>)
             fetch == Node(FetchKind(isEdge), i, <<NodeId(indexScan)>>)
             filter == Node("IndexFilter", i, <<NodeId(fetch)>>)
             output == Node("IndexOutput", i, <<NodeId(filter)>>)
         IN  [added |-> <<indexScan, filter, fetch>>, out |-> output]

\* buildPlanWithDataAndFilter: nullptr when the schema or its name is not
\* found.
buildPlanWithDataAndFilter(i, env, isEdge) ==
    IF env.schema = "noSchema" THEN [added |-> <<>>, out |-> nullptr]
    ELSE IF env.schema = "noName" THEN [added |-> <<>>, out |-> nullptr]
    ELSE LET indexScan == Node("IndexScan", i, <<>>)
             fetch == Node(FetchKind(isEdge), i, <<NodeId(indexScan)>>)
             filter == Node("IndexFilter", i, <<NodeId(fetch)>>)
             output == Node("IndexOutput", i, <<NodeId(filter)>>)
         IN  [added |-> <<indexScan, fetch, filter>>, out |-> output]

\* The four-way branch of buildPlan for the context at position i.
buildPlanBranch(i, ctx, env, isEdge, yieldCols) ==
    LET data == needData(yieldCols, get_fields(ctx.index_id))
        filt == needFilter(ctx)
    IN  IF ~data /\ ~filt THEN buildPlanBasic(i)
        ELSE IF data /\ ~filt THEN buildPlanWithData(i, env, isEdge)
        ELSE IF ~data /\ filt THEN buildPlanWithFilter(i)
        ELSE buildPlanWithDataAndFilter(i, env, isEdge)

\* A plausible slip: only the first output is made a dependency.
addDependencyFirstOnly(deps, out) ==
    IF deps = <<>> THEN <<NodeId(out)>> ELSE deps

\* IndexAggr->addDependency(out.get())
addDependency(deps, out) == Append(deps, NodeId(out))

LookupIdle ==
    /\ lreq = [is_edge |-> FALSE, contexts |-> <<>>,
               return_columns |-> NoColumns]
    /\ lenv = [indexes |-> [id \in IndexIds |-> "none"], schema |-> "ok"]
    /\ lpc = "idle"
    /\ isEdge_ = FALSE
    /\ contexts_ = <<>>
    /\ yieldCols_ = <<>>
    /\ resultDataSet_ = <<>>
    /\ plan = <<>>
    /\ IndexAggr = <<>>
    /\ ctxIdx = 1
    /\ checkRet = NoStatus
    /\ planRet = [status |-> NoStatus, plan |-> NoPlan]

\* A fresh processor that has received a request.
LookupInit ==
    /\ lreq \in LookupRequests
    /\ lenv \in LookupEnvs
    /\ lpc = "check"
    /\ isEdge_ = FALSE
    /\ contexts_ = <<>>
    /\ yieldCols_ = <<>>
    /\ resultDataSet_ = <<>>
    /\ plan = <<>>
    /\ IndexAggr = <<>>
    /\ ctxIdx = 1
    /\ checkRet = NoStatus
    /\ planRet = [status |-> NoStatus, plan |-> NoPlan]

\* requestCheck(req)
RequestCheck ==
    /\ lpc = "check"
    /\ \E retCode \in {"SUCCEEDED", "E_INVALID_SPACEVIDLEN"} :
         IF retCode # "SUCCEEDED"
         THEN /\ checkRet' = retCode
              /\ lpc' = "done"
              /\ UNCHANGED <<isEdge_, contexts_, yieldCols_, resultDataSet_>>
         ELSE /\ isEdge_' = lreq.is_edge
              /\ IF lreq.contexts = <<>>
                 THEN /\ checkRet' = "E_INVALID_OPERATION"
                      /\ lpc' = "done"
                      /\ UNCHANGED <<contexts_, yieldCols_, resultDataSet_>>
                 ELSE /\ contexts_' = lreq.contexts
                      /\ yieldCols_' = IF lreq.return_columns.isset
                                       THEN lreq.return_columns.val
                                       ELSE yieldCols_
                      /\ resultDataSet_' =
                             resultDataSet_ \o colNames(isEdge_', yieldCols_')
                      /\ checkRet' = "SUCCEEDED"
                      /\ lpc' = "plan"
    /\ UNCHANGED <<lreq, lenv, plan, IndexAggr, ctxIdx, planRet>>
    /\ UNCHANGED <<tabVars, baseVars, metaVars, edgeVars, signalVars>>

\* buildPlan(): one iteration of the loop over contexts_.
BuildPlanContext ==
    /\ lpc = "plan"
    /\ ctxIdx <= Len(contexts_)
    /\ LET ctx == contexts_[ctxIdx]
           built == buildPlanBranch(ctxIdx, ctx, lenv, isEdge_, yieldCols_)
       IN  IF ~getIndex(lenv, isEdge_, ctx.index_id)
           THEN /\ planRet' = [status |-> StatusIndexNotFound, plan |-> NoPlan]
                /\ lpc' = "done"
                /\ UNCHANGED <<plan, IndexAggr, ctxIdx>>
           ELSE IF built.out = nullptr
           THEN /\ planRet' = [status |-> StatusError, plan |-> NoPlan]
                /\ lpc' = "done"
                /\ UNCHANGED <<plan, IndexAggr, ctxIdx>>
           ELSE /\ IndexAggr' = addDependency(IndexAggr, built.out)
                /\ plan' = Append(plan \o built.added, built.out)
                /\ ctxIdx' = ctxIdx + 1
                /\ UNCHANGED <<planRet, lpc>>
    /\ UNCHANGED <<lreq, lenv, isEdge_, contexts_, yieldCols_, resultDataSet_,
                   checkRet>>
    /\ UNCHANGED <<tabVars, baseVars, metaVars, edgeVars, signalVars>>

\* buildPlan(): plan.addNode(std::move(IndexAggr)); return plan;
BuildPlanReturn ==
    /\ lpc = "plan"
    /\ ctxIdx > Len(contexts_)
    /\ plan' = Append(plan, Node("Aggregate", 0, IndexAggr))
    /\ planRet' = [status |-> StatusOK, plan |-> plan']
    /\ lpc' = "done"
    /\ UNCHANGED <<lreq, lenv, isEdge_, contexts_, yieldCols_, resultDataSet_,
                   IndexAggr, ctxIdx, checkRet>>
    /\ UNCHANGED <<tabVars, baseVars, metaVars, edgeVars, signalVars>>

-----------------------------------------------------------------------------
(***************************************************************************)
(* The meta daemon's signal handling: the end of main() and the handler    *)
(* installed by setupSignalHandler.                                        *)
(***************************************************************************)

\* The signals delivered to the process in one run.
MaxSignals == 2

\* The signals: the two the handler is installed for, and another one.
Signals == {"SIGINT", "SIGTERM", "SIGHUP"}

\* A plausible slip: the job manager is shut down before the server stops.
signalHandlerShutDownFirst(sig, server) ==
    IF sig \in {"SIGINT", "SIGTERM"}
    THEN <<"shutDown">> \o (IF server # "null" THEN <<"stop">> ELSE <<>>)
    ELSE <<>>

\* signalHandler(sig): the calls it makes, given the gServer it finds.
signalHandler(sig, server) ==
    IF sig \in {"SIGINT", "SIGTERM"}
    THEN (IF server # "null" THEN <<"stop">> ELSE <<>>) \o <<"shutDown">>
    ELSE <<>>

\* gServer after gServer->stop().
Stopped(server) ==
    IF server = "serving" THEN "stopping"
    ELSE IF server = "created" THEN "stopRequested"
    ELSE server

SignalIdle ==
    /\ dpc = "idle"
    /\ gServer = "null"
    /\ jobMgr = "running"
    /\ sigLog = <<>>

\* main() has initialised the job manager and is about to install the
\* handler.
SignalInit ==
    /\ dpc = "setupSignalHandler"
    /\ gServer = "null"
    /\ jobMgr = "running"
    /\ sigLog = <<>>

\* status = setupSignalHandler(); EXIT_FAILURE when it fails.
SetupSignalHandler ==
    /\ dpc = "setupSignalHandler"
    /\ \E ok \in BOOLEAN : dpc' = IF ok THEN "installed" ELSE "exit"
    /\ UNCHANGED <<gServer, jobMgr, sigLog>>
    /\ UNCHANGED <<tabVars, baseVars, metaVars, edgeVars, lookupVars>>

\* gServer = std::make_unique<ThriftServer>() and its setters.
CreateServer ==
    /\ dpc = "installed"
    /\ gServer' = "created"
    /\ dpc' = "created"
    /\ UNCHANGED <<jobMgr, sigLog>>
    /\ UNCHANGED <<tabVars, baseVars, metaVars, edgeVars, lookupVars>>

\* gServer->serve() begins; after a stop() that came too early it either
\* serves all the same or returns at once.
ServeBegin ==
    /\ dpc = "created"
    /\ \/ gServer' = "serving" /\ dpc' = "serving"
       \/ /\ gServer = "stopRequested"
          /\ gServer' = "stopped"
          /\ dpc' = "returned"
    /\ UNCHANGED <<jobMgr, sigLog>>
    /\ UNCHANGED <<tabVars, baseVars, metaVars, edgeVars, lookupVars>>

\* serve() returns after stop(): "The meta Daemon stopped", EXIT_SUCCESS.
ServeReturn ==
    /\ dpc = "serving"
    /\ gServer = "stopping"
    /\ gServer' = "stopped"
    /\ dpc' = "returned"
    /\ UNCHANGED <<jobMgr, sigLog>>
    /\ UNCHANGED <<tabVars, baseVars, metaVars, edgeVars, lookupVars>>

\* A signal is delivered while the handler is installed and the process
\* runs: signalHandler(sig).
DeliverSignal ==
    /\ dpc \in {"installed", "created", "serving"}
    /\ Len(sigLog) < MaxSignals
    /\ \E sig \in Signals :
         LET calls == signalHandler(sig, gServer)
             has(c) == \E i \in 1..Len(calls) : calls[i] = c
         IN  /\ sigLog' = Append(sigLog, [sig |-> sig, server |-> gServer,
                                          jobMgr |-> jobMgr, calls |-> calls])
             /\ gServer' = IF has("stop") THEN Stopped(gServer) ELSE gServer
             /\ jobMgr' = IF has("shutDown") THEN "shutDown" ELSE jobMgr
    /\ UNCHANGED dpc
    /\ UNCHANGED <<tabVars, baseVars, metaVars, edgeVars, lookupVars>>

-----------------------------------------------------------------------------
(***************************************************************************)
(* The specifications.                                                     *)
(***************************************************************************)

NoResponse ==
    /\ codes_ = <<>>
    /\ onFinishedCalls = 0

TablesIdle ==
    /\ tIn = [code |-> "SUCCEEDED", wr |-> "SUCCEEDED", isEdge |-> FALSE]
    /\ tOut = [storageErr |-> NotCalled, to |-> NotCalled, wr |-> NotCalled]

InitTables ==
    TablesInit /\ BaseIdle /\ NoResponse /\ MetaIdle /\ EdgeIdle /\ LookupIdle /\
    SignalIdle
NextTables == CallToStorageErr \/ CallTo \/ CallWriteResultTo
SpecTables == InitTables /\ [][NextTables]_vars

InitProcessor ==
    ProcessorInit /\ TablesIdle /\ MetaIdle /\ EdgeIdle /\ LookupIdle /\
    SignalIdle
NextProcessor ==
    \/ \E p \in DOMAIN cb : HandleAsyncKV(p)
    \/ \E p \in DOMAIN cb : HandleAsyncError(p)
    \/ \E p \in DOMAIN cb : HandleKV(p)
    \/ \E p \in DOMAIN cb : HandleError(p)
    \/ \E p \in DOMAIN cb : DecrementLoad(p)
    \/ \E p \in DOMAIN cb : DecrementStore(p)
    \/ \E p \in DOMAIN cb : Unlock(p)
    \/ \E p \in DOMAIN cb : FinishOrReturn(p)
SpecProcessor == InitProcessor /\ [][NextProcessor]_vars

InitMeta ==
    MetaInit /\ TablesIdle /\ BaseIdle /\ NoResponse /\ EdgeIdle /\ LookupIdle /\
    SignalIdle
NextMeta ==
    \E r \in Replicas :
        \/ StoreInit(r)
        \/ WaitLeader(r)
        \/ GetClusterId(r)
        \/ CreateAndPersist(r)
        \/ FollowerWait(r)
        \/ ReturnStore(r)
        \/ Elect(r)
        \/ Replicate(r)
        \/ Restart(r)
SpecMeta == InitMeta /\ [][NextMeta]_vars

InitMain ==
    MainInit /\ TablesIdle /\ BaseIdle /\ NoResponse /\ EdgeIdle /\ LookupIdle /\
    SignalIdle
NextMain ==
    \/ \E r \in Replicas : StoreInit(r)
    \/ \E r \in Replicas : WaitLeader(r)
    \/ \E r \in Replicas : GetClusterId(r)
    \/ \E r \in Replicas : CreateAndPersist(r)
    \/ \E r \in Replicas : FollowerWait(r)
    \/ \E r \in Replicas : ReturnStore(r)
    \/ \E r \in Replicas : MainPartLeader(r)
    \/ \E r \in Replicas : IsUserExists(r)
    \/ \E r \in Replicas : InitRootUser(r)
    \/ \E r \in Replicas : Serve(r)
    \/ \E r \in Replicas : Elect(r)
    \/ \E r \in Replicas : Replicate(r)
SpecMain == InitMain /\ [][NextMain]_vars

\* initKV where nothing fails: the stores start, partLeader answers, the
\* consensus layer elects a leader and replicates, and a put by the leader
\* with a quorum commits.  A put by a replica that is no longer the leader
\* is still refused.  Every step that can change the state is taken in the
\* end, and a leader is elected while there is none.
NextMetaLive ==
    \/ \E r \in Replicas : StoreInit(r) /\ mpc'[r] # "exit"
    \/ \E r \in Replicas : WaitLeader(r) /\ mpc'[r] # "exit"
    \/ \E r \in Replicas : GetClusterId(r)
    \/ \E r \in Replicas :
         CreateAndPersist(r) /\ (Commits(r, TRUE) => mpc'[r] # "exit")
    \/ \E r \in Replicas : FollowerWait(r)
    \/ \E r \in Replicas : ReturnStore(r)
    \/ \E r \in Replicas : Elect(r)
    \/ \E r \in Replicas : Replicate(r)
ProgressMeta ==
    \/ \E r \in Replicas : StoreInit(r) /\ mpc'[r] # "exit"
    \/ \E r \in Replicas : WaitLeader(r) /\ mpc'[r] # "exit"
    \/ \E r \in Replicas : GetClusterId(r)
    \/ \E r \in Replicas :
         CreateAndPersist(r) /\ (Commits(r, TRUE) => mpc'[r] # "exit")
    \/ \E r \in Replicas : FollowerWait(r)
    \/ \E r \in Replicas : ReturnStore(r)
    \/ \E r \in Replicas : Replicate(r)
    \/ \E r \in Replicas : Elect(r) /\ leaderOf = NoHost
SpecMetaLive ==
    InitMeta /\ [][NextMetaLive]_vars /\ WF_vars(ProgressMeta)

InitEdges == EdgeInit /\ TablesIdle /\ BaseIdle /\ MetaIdle /\ LookupIdle /\
    SignalIdle
NextEdges ==
    \/ ProcessVidLenFailed
    \/ ProcessAborted
    \/ ProcessIndexFailed
    \/ ProcessSubmitted
    \/ \E cid \in DOMAIN chains : TxnResolve(cid)
    \/ \E cid \in DOMAIN chains : ThenTryBegin(cid)
    \/ \E cid \in DOMAIN chains : ThenTryPush(cid)
    \/ CollectAllFinished
SpecEdges == InitEdges /\ [][NextEdges]_vars

\* The same with progress: the processor's thread runs, the transaction
\* manager completes or drops every promise, and its executor runs every
\* continuation that is ready.
NextEdgesLive ==
    \/ ProcessVidLenFailed
    \/ ProcessAborted
    \/ ProcessIndexFailed
    \/ ProcessSubmitted
    \/ \E cid \in DOMAIN chains : TxnResolve(cid)
    \/ \E cid \in DOMAIN chains : ThenTryBegin(cid)
    \/ \E cid \in DOMAIN chains : ThenTryPush(cid)
    \/ CollectAllFinished
SpecEdgesLive ==
    InitEdges /\ [][NextEdgesLive]_vars /\ WF_vars(NextEdgesLive)

InitLookup ==
    LookupInit /\ TablesIdle /\ BaseIdle /\ NoResponse /\ MetaIdle /\ EdgeIdle /\
    SignalIdle
NextLookup == RequestCheck \/ BuildPlanContext \/ BuildPlanReturn
SpecLookup == InitLookup /\ [][NextLookup]_vars

InitSignal ==
    SignalInit /\ TablesIdle /\ BaseIdle /\ NoResponse /\ MetaIdle /\ EdgeIdle /\
    LookupIdle
NextSignal ==
    \/ SetupSignalHandler
    \/ CreateServer
    \/ ServeBegin
    \/ ServeReturn
    \/ DeliverSignal
SpecSignal == InitSignal /\ [][NextSignal]_vars

-----------------------------------------------------------------------------
(***************************************************************************)
(* The properties.                                                         *)
(***************************************************************************)

\* The callback of partition p has recorded its result and decremented the
\* counter: it has left the critical section of handleAsync.
Resolved(p) == cb[p].pc \in {"after", "done"}

\* C1: for a request fanned out over n >= 1 partitions with callingNum_ = n,
\* in every interleaving of the callbacks onFinished is invoked at most
\* once, only when every callback has resolved, and exactly once by the
\* time every callback has returned.
C1_OnFinishedOnceAfterLast ==
    /\ onFinishedCalls <= 1
    /\ onFinishedCalls = 1 => \A p \in DOMAIN cb : Resolved(p)
    /\ (\A p \in DOMAIN cb : cb[p].pc = "done") => onFinishedCalls = 1

\* Three callbacks have returned and onFinished has been invoked.
C1_Witness ==
    /\ Cardinality(DOMAIN cb) >= 3
    /\ \A p \in DOMAIN cb : cb[p].pc = "done"
    /\ onFinishedCalls = 1

\* The edges a request can carry, and the two keys of an edge.
AllEdges == UNION {EdgesOf(p) : p \in Parts}
OutKeyOf(e) == <<PartOf(e.src), e.src, "+", e.dst>>
InKeyOf(e) == <<PartOf(e.dst), e.dst, "-", e.src>>
OutPresent(e) == OutKeyOf(e) \in store[PartOf(e.src)]
InPresent(e) == InKeyOf(e) \in store[PartOf(e.dst)]

\* C2: under the transaction manager's contract, no state has one side of
\* an edge without the other, and once the processor has finished, every
\* edge of a committed chain has its out-key in the local partition and
\* its in-key in the remote partition, and every other edge of the request
\* has neither.
C2_BothSidesOrNeither ==
    /\ \A e \in AllEdges : OutPresent(e) <=> InPresent(e)
    /\ epc = "done" =>
         \A p \in req.listed : \A i \in 1..Len(req.edges[p]) :
            LET e == req.edges[p][i]
                cid == <<p, PartOf(e.dst)>>
            IN  IF cid \in DOMAIN chains /\ chains[cid].committed
                THEN OutPresent(e) /\ InPresent(e)
                ELSE ~OutPresent(e) /\ ~InPresent(e)

\* A finished request with a committed cross-partition chain and a failed
\* one.
C2_Witness ==
    /\ epc = "done"
    /\ \E c1, c2 \in DOMAIN chains :
         /\ c1[1] # c1[2]
         /\ chains[c1].committed
         /\ ~chains[c2].committed

\* C3: onFinished is not invoked while a submitted chain is in flight or
\* its result is not yet recorded.
C3_NoFinishBeforeAllChains ==
    onFinishedCalls > 0 =>
        \A cid \in DOMAIN chains : chains[cid].state = "recorded"

\* Two chains were submitted, one failed, and the request has finished.
C3_Witness ==
    /\ onFinishedCalls = 1
    /\ Cardinality(DOMAIN chains) >= 2
    /\ \E cid \in DOMAIN chains : ThenTryCode(chains[cid]) # "SUCCEEDED"

\* C4: every put of the cluster-id key that takes effect is made by the
\* current leader and finds the key absent.
C4_NoFollowerPutNoRewrite ==
    \A put \in putLog : put.byLeader /\ ~put.hadValue

\* C5: once the key is written its committed value never changes, and
\* what a replica's engine holds for it is that value or, on a replica
\* that lags, nothing; restarts included.
C5_ClusterIdNeverChanges ==
    [][/\ kvCommitted # 0 => kvCommitted' = kvCommitted
       /\ \A r \in Replicas : kvLocal'[r] \in {0, kvCommitted'}
       /\ \A r \in Replicas : kvLocal[r] # 0 => kvLocal'[r] = kvLocal[r]]_vars

\* The key is written, a replica has been restarted and has run initKV
\* again to its end, and a second put has taken effect.
C5_Witness ==
    /\ kvCommitted # 0
    /\ restarts >= 1
    /\ \E put \in putLog : put.hadValue
    /\ \E r \in Replicas : mpc[r] = "inited" /\ r \notin {put.by : put \in putLog}

\* C6: when the three replicas start together on empty data directories
\* (no restart), at most one replica writes the cluster id, exactly one
\* has written it once a replica completes initKV, and the replicas that
\* complete initKV hold the same non-zero gClusterId.
C6_ExactlyOneWriter ==
    restarts = 0 =>
        LET writers == {put.by : put \in putLog}
            inited == {r \in Replicas : mpc[r] = "inited"}
        IN  /\ Cardinality(writers) <= 1
            /\ inited # {} => Cardinality(writers) = 1
            /\ \A r \in inited : gClusterId[r] # 0
            /\ \A r1, r2 \in inited : gClusterId[r1] = gClusterId[r2]

\* The callback of partition p has run handleErrorCode / pushResultCode.
Handled(p) == cb[p].pc \notin {"inflight", "handle"}

\* C7: codes_ never holds an entry whose code is SUCCEEDED, and once every
\* callback has been handled it is empty exactly when every partition
\* operation succeeded.
C7_OnlyFailuresListed ==
    /\ \A i \in 1..Len(codes_) : codes_[i].code # "SUCCEEDED"
    /\ (\A p \in DOMAIN cb : Handled(p)) =>
         (codes_ = <<>> <=> \A p \in DOMAIN cb : cb[p].code = "SUCCEEDED")

\* Every callback is handled; one succeeded and one failed.
C7_Witness ==
    /\ \A p \in DOMAIN cb : Handled(p)
    /\ \E p \in DOMAIN cb : cb[p].code = "SUCCEEDED"
    /\ Len(codes_) = 1

\* The fixed table of the KV codes; every other code is Unknown.
KVErrorTable ==
    {<<"SUCCEEDED", "SUCCEEDED">>,
     <<"ERR_LEADER_CHANGED", "E_LEADER_CHANGED">>,
     <<"ERR_SPACE_NOT_FOUND", "E_SPACE_NOT_FOUND">>,
     <<"ERR_PART_NOT_FOUND", "E_PART_NOT_FOUND">>,
     <<"ERR_CONSENSUS_ERROR", "E_CONSENSUS_ERROR">>,
     <<"ERR_CHECKPOINT_ERROR", "E_FAILED_TO_CHECKPOINT">>,
     <<"ERR_WRITE_BLOCK_ERROR", "E_CHECKPOINT_BLOCKED">>,
     <<"ERR_PARTIAL_RESULT", "E_PARTIAL_RESULT">>}

\* The row of a table for the key k, or `other`.
Lookup(table, k, other) ==
    IF \E row \in table : row[1] = k
    THEN (CHOOSE row \in table : row[1] = k)[2]
    ELSE other

\* The entries of codes_ for partition p.
EntriesOf(p) == {i \in 1..Len(codes_) : codes_[i].partId = p}

\* C8: a callback with ERR_LEADER_CHANGED for partition p leaves exactly
\* one entry for p: {LeaderChanged, p, H} when partLeader returned H, and
\* {translate(e), p} without a leader when partLeader failed with e.
C8_LeaderChangedEntry ==
    \A p \in DOMAIN cb :
        (Handled(p) /\ cb[p].kind = "kv" /\ cb[p].code = "ERR_LEADER_CHANGED")
        => /\ Cardinality(EntriesOf(p)) = 1
           /\ \A i \in EntriesOf(p) :
                codes_[i] = IF cb[p].ret.ok
                            THEN [code |-> "E_LEADER_CHANGED", partId |-> p,
                                  leader |-> cb[p].ret.val]
                            ELSE [code |-> Lookup(KVErrorTable, cb[p].ret.val, "E_UNKNOWN"),
                                  partId |-> p, leader |-> NoLeader]

\* One partition reported the new leader H, another could not get a leader.
C8_Witness ==
    \E p, q \in DOMAIN cb :
        /\ Handled(p) /\ cb[p].code = "ERR_LEADER_CHANGED"
        /\ cb[p].ret = [ok |-> TRUE, val |-> "H"]
        /\ Handled(q) /\ cb[q].code = "ERR_LEADER_CHANGED"
        /\ cb[q].ret = [ok |-> FALSE, val |-> "ERR_PART_NOT_FOUND"]

\* C9: toStorageErr and BaseProcessor::to return, for every KV code, the
\* error of the fixed table, and Unknown for a code the table does not name.
C9_KVTranslationTable ==
    /\ tOut.storageErr # NotCalled =>
         tOut.storageErr = Lookup(KVErrorTable, tIn.code, "E_UNKNOWN")
    /\ tOut.to # NotCalled =>
         tOut.to = Lookup(KVErrorTable, tIn.code, "E_UNKNOWN")

\* Both functions were applied to ERR_WRITE_BLOCK_ERROR.
C9_Witness ==
    /\ tIn.code = "ERR_WRITE_BLOCK_ERROR"
    /\ tOut.storageErr = "E_CHECKPOINT_BLOCKED"
    /\ tOut.to = "E_CHECKPOINT_BLOCKED"

\* The fixed table of the encoder faults: <<fault, <<edge, vertex>>>>.
WriteFaultTable ==
    {<<"UNKNOWN_FIELD", <<"E_EDGE_PROP_NOT_FOUND", "E_TAG_PROP_NOT_FOUND">>>>,
     <<"NOT_NULLABLE", <<"E_NOT_NULLABLE", "E_NOT_NULLABLE">>>>,
     <<"TYPE_MISMATCH", <<"E_DATA_TYPE_MISMATCH", "E_DATA_TYPE_MISMATCH">>>>,
     <<"FIELD_UNSET", <<"E_FIELD_UNSET", "E_FIELD_UNSET">>>>,
     <<"OUT_OF_RANGE", <<"E_OUT_OF_RANGE", "E_OUT_OF_RANGE">>>>,
     <<"INCORRECT_VALUE", <<"E_INVALID_FIELD_VALUE", "E_INVALID_FIELD_VALUE">>>>}

\* C10: writeResultTo returns, for each of the six encoder faults and both
\* contexts, the error of the fixed table, in which only the row of
\* UnknownField differs between the edge and the vertex context.
C10_WriteFaultTable ==
    (tOut.wr # NotCalled /\ \E row \in WriteFaultTable : row[1] = tIn.wr) =>
        tOut.wr = Lookup(WriteFaultTable, tIn.wr, <<>>)[IF tIn.isEdge THEN 1 ELSE 2]

\* writeResultTo was applied to UNKNOWN_FIELD in the vertex context.
C10_Witness ==
    /\ tIn.wr = "UNKNOWN_FIELD"
    /\ ~tIn.isEdge
    /\ tOut.wr = "E_TAG_PROP_NOT_FOUND"

-----------------------------------------------------------------------------
(***************************************************************************)
(* The lookup planner's properties.                                        *)
(***************************************************************************)

\* The elements of a sequence.
Range(q) == {q[i] : i \in 1..Len(q)}

\* The nodes of plan p built for the context at position i, in plan order.
ChainOf(p, i) == SelectSeq(p, LAMBDA n : n.ctx = i)

\* The kinds of the nodes of a sequence of nodes.
KindsOf(q) == [j \in 1..Len(q) |-> q[j].kind]

\* Each node of the chain q depends on the node before it and on nothing
\* else; the first one depends on nothing.
Linear(q) ==
    \A j \in 1..Len(q) :
        q[j].deps = IF j = 1 THEN <<>> ELSE <<NodeId(q[j - 1])>>

\* The request's context at position i yields a column its index lacks.
YieldsNonIndexed(i) ==
    /\ lreq.return_columns.isset
    /\ Range(lreq.return_columns.val)
           \ Range(get_fields(lreq.contexts[i].index_id)) # {}

\* The request's context at position i carries a set, non-empty filter.
CarriesFilter(i) ==
    /\ lreq.contexts[i].filter.isset
    /\ lreq.contexts[i].filter.val # ""

\* The chain the table of plan shapes gives for (data, filter).
PlanShape(data, filter, isEdge) ==
    <<"IndexScan">>
    \o (IF data THEN <<IF isEdge THEN "IndexEdge" ELSE "IndexVertex">>
        ELSE <<>>)
    \o (IF filter THEN <<"IndexFilter">> ELSE <<>>)
    \o <<"IndexOutput">>

\* buildPlan has returned a plan.
Planned == lpc = "done" /\ planRet.status = StatusOK

\* C11: in a returned plan, the nodes of every context are the chain the
\* table gives for its (needData, needFilter), each node depending on the
\* one before it, with the edge node for an edge lookup and the vertex node
\* otherwise.
C11_PlanShapeTable ==
    Planned =>
        \A i \in 1..Len(lreq.contexts) :
            LET chain == ChainOf(planRet.plan, i)
            IN  /\ KindsOf(chain) = PlanShape(YieldsNonIndexed(i),
                                              CarriesFilter(i), lreq.is_edge)
                /\ Linear(chain)

C11_Witness ==
    /\ Planned
    /\ lreq.is_edge
    /\ \E i, j \in 1..Len(lreq.contexts) :
         /\ KindsOf(ChainOf(planRet.plan, i))
                = <<"IndexScan", "IndexEdge", "IndexFilter", "IndexOutput">>
         /\ KindsOf(ChainOf(planRet.plan, j))
                = <<"IndexScan", "IndexEdge", "IndexOutput">>

\* The plan p has a data-fetch node for the context at position i.
HasFetch(p, i) ==
    \E n \in Range(p) : n.ctx = i /\ n.kind \in {"IndexEdge", "IndexVertex"}

HasFilter(p, i) == \E n \in Range(p) : n.ctx = i /\ n.kind = "IndexFilter"

\* C13: a returned plan has a filter node for a context exactly when the
\* context's filter is set and not the empty string.
C13_FilterIffNonEmptyFilter ==
    Planned =>
        \A i \in 1..Len(lreq.contexts) :
            HasFilter(planRet.plan, i) <=> CarriesFilter(i)

C13_Witness ==
    /\ Planned
    /\ \E i, j \in 1..Len(lreq.contexts) :
         /\ HasFilter(planRet.plan, i)
         /\ ~HasFilter(planRet.plan, j)
         /\ lreq.contexts[j].filter = [isset |-> TRUE, val |-> ""]

\* C14: a returned plan has one AggregateNode, it is the last node, it
\* depends on the output nodes of the contexts, one each and in context
\* order, and no other node depends on an output node.
C14_SingleTerminalAggregate ==
    Planned =>
        LET p == planRet.plan
            k == Len(lreq.contexts)
        IN  /\ k >= 1
            /\ Cardinality({j \in 1..Len(p) : p[j].kind = "Aggregate"}) = 1
            /\ p[Len(p)].kind = "Aggregate"
            /\ p[Len(p)].deps = [i \in 1..k |-> <<i, "IndexOutput">>]
            /\ \A i \in 1..k :
                 Cardinality({j \in 1..Len(p) :
                     p[j].ctx = i /\ p[j].kind = "IndexOutput"}) = 1
            /\ \A j \in 1..(Len(p) - 1) :
                 \A d \in Range(p[j].deps) : d[2] # "IndexOutput"

C14_Witness ==
    /\ Planned
    /\ Len(lreq.contexts) >= 2
    /\ Len(planRet.plan) >= 6

\* C15: after a successful requestCheck the column names are the key
\* columns of the kind of lookup followed by the return columns in request
\* order.
C15_ResultColumns ==
    checkRet = "SUCCEEDED" =>
        LET yield == IF lreq.return_columns.isset
                     THEN lreq.return_columns.val ELSE <<>>
        IN  /\ Len(resultDataSet_)
                 = (IF lreq.is_edge THEN 3 ELSE 1) + Len(yield)
            /\ lreq.is_edge =>
                 SubSeq(resultDataSet_, 1, 3) = <<"_src", "_ranking", "_dst">>
            /\ ~lreq.is_edge => resultDataSet_[1] = "_vid"
            /\ \A j \in 1..Len(yield) :
                 resultDataSet_[(IF lreq.is_edge THEN 3 ELSE 1) + j] = yield[j]

C15_Witness ==
    /\ checkRet = "SUCCEEDED"
    /\ resultDataSet_ = <<"_src", "_ranking", "_dst", "c3", "c1">>

\* buildPlan stopped at the context at position ctxIdx, whose index was
\* found and which needs data.
FailedAtDataContext ==
    /\ lpc = "done"
    /\ planRet.status \notin {NoStatus, StatusOK}
    /\ getIndex(lenv, isEdge_, contexts_[ctxIdx].index_id)
    /\ YieldsNonIndexed(ctxIdx)

\* C16: when the planner fails at a context that needs data because the
\* tag or edge schema is missing, the error is SchemaNotFound.
C16_SchemaNotFound ==
    (FailedAtDataContext /\ lenv.schema = "noSchema") =>
        planRet.status = "SchemaNotFound"

\* The request has passed requestCheck and buildPlan has returned.
PlanReturned == lpc = "done" /\ planRet.status # NoStatus

\* The context at position i names an index the index manager lacks for
\* the kind of the lookup.
IndexMissing(i) ==
    lenv.indexes[lreq.contexts[i].index_id]
        # (IF lreq.is_edge THEN "edge" ELSE "tag")

\* C17 as stated: if some context names a missing index, buildPlan fails
\* with IndexNotFound and returns no plan, whatever the position.
C17_IndexNotFoundAnyPosition ==
    (PlanReturned /\ \E i \in 1..Len(lreq.contexts) : IndexMissing(i)) =>
        /\ planRet.status = StatusIndexNotFound
        /\ planRet.plan = NoPlan

\* The context at position i makes its buildPlanWith* return nullptr.
SchemaFails(i) ==
    /\ ~IndexMissing(i)
    /\ YieldsNonIndexed(i)
    /\ lenv.schema # "ok"

\* C17 amended: if some context names a missing index, buildPlan returns no
\* plan; it fails with IndexNotFound unless a context before the first such
\* context needs data while the schema or its name is not found, and then
\* with the error of that context.
C17_IndexNotFoundFirstFailure ==
    (PlanReturned /\ \E i \in 1..Len(lreq.contexts) : IndexMissing(i)) =>
        LET first == CHOOSE i \in 1..Len(lreq.contexts) :
                        /\ IndexMissing(i)
                        /\ \A j \in 1..(i - 1) : ~IndexMissing(j)
        IN  /\ planRet.plan = NoPlan
            /\ planRet.status =
                 IF \E j \in 1..(first - 1) : SchemaFails(j)
                 THEN StatusError ELSE StatusIndexNotFound

C17_Witness ==
    /\ PlanReturned
    /\ Len(lreq.contexts) = 2
    /\ ~IndexMissing(1)
    /\ IndexMissing(2)
    /\ plan # <<>>
    /\ planRet = [status |-> StatusIndexNotFound, plan |-> NoPlan]

-----------------------------------------------------------------------------
(***************************************************************************)
(* The atomic edge writer's error paths.                                   *)
(***************************************************************************)

\* Nothing was handed to the transaction manager and nothing was written.
NothingSubmitted ==
    /\ txnCalls = {}
    /\ DOMAIN chains = {}
    /\ \A p \in Parts : store[p] = {}

\* C18: when the vertex-id length cannot be resolved, the response has
\* exactly one InvalidSpaceVidLen entry for every listed partition and no
\* other entry, no edge is encoded, no chain is submitted and onFinished is
\* called once.
C18_VidLenFailure ==
    stVidLen = "failed" =>
        /\ epc = "done"
        /\ Len(codes_) = Cardinality(req.listed)
        /\ \A p \in req.listed :
             /\ Cardinality(EntriesOf(p)) = 1
             /\ \A i \in EntriesOf(p) :
                  codes_[i].code = "E_INVALID_SPACEVIDLEN"
        /\ encoded = {}
        /\ NothingSubmitted
        /\ onFinishedCalls = 1

C18_Witness ==
    /\ stVidLen = "failed"
    /\ req.listed = Parts
    /\ \A p \in Parts : req.edges[p] # <<>>
    /\ Len(codes_) = 2

\* The edges of partition p that do not resolve or encode.
FailingIn(p) ==
    {i \in 1..Len(req.edges[p]) : req.edges[p][i].outcome # "ok"}

\* The first of them: the edge at which the loop over p stops.
FirstFailingIn(p) ==
    CHOOSE i \in FailingIn(p) : \A j \in FailingIn(p) : i <= j

\* C19: once processByChain has run on a request in which resolution or
\* encoding fails for some edge, no addSamePartEdges call has been made
\* and nothing is written, the request is finished, and a partition whose
\* loop stopped on a resolution failure has the one entry SpaceNotFound.
C19_AbortWithoutWrites ==
    (stVidLen = "ok" /\ \E p \in req.listed : FailingIn(p) # {}) =>
        /\ NothingSubmitted
        /\ epc = "done"
        /\ onFinishedCalls = 1
        /\ \A p \in req.listed :
             (/\ FailingIn(p) # {}
              /\ req.edges[p][FirstFailingIn(p)].outcome = "noPart") =>
                 /\ Cardinality(EntriesOf(p)) = 1
                 /\ \A i \in EntriesOf(p) :
                      codes_[i].code = "E_SPACE_NOT_FOUND"

C19_Witness ==
    /\ stVidLen = "ok"
    /\ epc = "done"
    /\ req.listed = Parts
    /\ \E p, q \in Parts :
         /\ req.edges[p] # <<>>
         /\ FailingIn(p) = {}
         /\ FailingIn(q) # {}
         /\ req.edges[q][FirstFailingIn(q)].outcome = "noPart"
    /\ Len(codes_) = 1

\* C20: every encoder fault is translated by the edge column of the
\* encoder-fault table, and the request is aborted with DataTypeMismatch
\* recorded on the partition of the edge.
C20_EncoderFaultMapped ==
    \A c \in encoded :
        c.wRet \in WriteFaults =>
            /\ c.code = Lookup(WriteFaultTable, c.wRet,
                               <<"E_UNKNOWN", "E_UNKNOWN">>)[1]
            /\ NothingSubmitted
            /\ epc = "done"
            /\ \E i \in EntriesOf(c.part) :
                 codes_[i].code = "E_DATA_TYPE_MISMATCH"

-----------------------------------------------------------------------------
(***************************************************************************)
(* The meta daemon's start: root user, upgrade, follower wait, put failure *)
(***************************************************************************)

\* C24: every root-user install is made by the leader, after the cluster
\* id is set and with no root user record present; there is at most one
\* install; and a leader that serves has a root user.
C24_RootUserOnce ==
    /\ \A w \in rootLog : w.byLeader /\ w.idSet /\ ~w.hadUser
    /\ Cardinality(rootLog) <= 1
    /\ \A r \in Replicas :
         (mpc[r] = "serving" /\ leaderOf = r) => rootCommitted

\* C25: the upgrade is never run by a replica that is not the leader, it
\* runs only with the flag set, and a replica that ran it did so before it
\* serves.
C25_UpgradeByLeaderOnly ==
    \A r \in Replicas :
        /\ upgradeRuns[r] # "follower"
        /\ upgradeRuns[r] # "none" => FLAGS_upgrade_meta_data
        /\ upgradeRuns[r] # "none" =>
             mpc[r] \notin {"start", "waitLeader", "getClusterId", "create",
                            "follower", "upgrade"}

\* The positions of a replica whose initKV has left the cluster-id step.
PastClusterId ==
    {"upgrade", "inited", "isUserExists", "initRootUser", "setupSignal",
     "serving", "exit"}

\* C28: a replica that took the follower branch stays in the wait loop
\* with gClusterId = 0, and once it has left the loop its gClusterId is
\* non-zero and is the value stored under the key.
C28_FollowerAdoptsStoredId ==
    \A r \in waited :
        /\ mpc[r] \in {"follower"} \cup PastClusterId
        /\ mpc[r] = "follower" => gClusterId[r] = 0
        /\ mpc[r] \in PastClusterId =>
             /\ gClusterId[r] # 0
             /\ gClusterId[r] = kvLocal[r]
             /\ gClusterId[r] = kvCommitted

C28_Witness ==
    \E r \in waited :
        /\ mpc[r] = "inited"
        /\ gClusterId[r] # 0
        /\ \E put \in putLog : put.by # r

\* C29: a replica whose put of the cluster id failed has left main and
\* stays out, and a replica that is past initKV holds a non-zero cluster
\* id that is the committed one.
C29_NoStartAfterFailedPut ==
    /\ [](\A r \in Replicas :
            mpc[r] \in {"inited", "isUserExists", "initRootUser",
                        "setupSignal", "serving"} =>
                gClusterId[r] # 0 /\ gClusterId[r] = kvCommitted)
    /\ [][\A r \in Replicas : mpc[r] = "exit" => mpc'[r] = "exit"]_vars

C29_Witness ==
    \E r, q \in Replicas :
        /\ mpc[r] = "exit"
        /\ gClusterId[r] # 0
        /\ kvLocal[r] = 0
        /\ leader[r] = r
        /\ mpc[q] = "serving"


-----------------------------------------------------------------------------
(***************************************************************************)
(* The atomic edge writer: chains, their failure entries, the inner        *)
(* processor and the lock.                                                 *)
(***************************************************************************)

\* The code a chain's future stands for: Unknown when it was lost.
ResolvedCode(cid) ==
    IF ~chains[cid].hasValue THEN "E_UNKNOWN" ELSE chains[cid].code

\* The failure entries recorded for local partition p with code c.
EntriesWith(p, c) ==
    {i \in 1..Len(codes_) : codes_[i].partId = p /\ codes_[i].code = c}

\* The chains of local partition p whose future stands for the code c.
ChainsWith(p, c) ==
    {cid \in DOMAIN chains : cid[1] = p /\ ResolvedCode(cid) = c}

\* C21: once the request has finished, every chain whose future resolved
\* to a code other than Succeeded, or was lost (Unknown), has exactly one
\* failure entry with its local partition and that code, and a chain that
\* succeeded has none: per partition and code, as many entries as chains.
C21_OneEntryPerFailedChain ==
    (epc = "done" /\ stIndex \in {"empty", "nonEmpty"}) =>
        /\ \A p \in Parts :
             \A c \in TxnFailCodes \cup {"E_UNKNOWN"} :
                 Cardinality(EntriesWith(p, c)) = Cardinality(ChainsWith(p, c))
        /\ \A i \in 1..Len(codes_) :
             /\ codes_[i].code # "SUCCEEDED"
             /\ ChainsWith(codes_[i].partId, codes_[i].code) # {}

\* The edges listed under lp whose destination is in partition rp.
EdgesTo(lp, rp) ==
    {i \in 1..Len(req.edges[lp]) : PartOf(req.edges[lp][i].dst) = rp}

\* The addSamePartEdges calls made for the pair (lp, rp).
CallsFor(lp, rp) ==
    {c \in txnCalls : c.localPart = lp /\ c.remotePart = rp}

\* C22: when no edge fails, addSamePartEdges is called exactly once for
\* each pair (local, remote) that has an edge and for no other pair; the
\* call carries the keys of exactly the edges listed under local whose
\* destination hashes to remote, each once and in the order of the request.
C22_EdgesPartitionedByChain ==
    (stIndex \in {"empty", "nonEmpty"}) =>
        \A lp, rp \in Parts :
            /\ Cardinality(CallsFor(lp, rp))
                   = IF EdgesTo(lp, rp) # {} THEN 1 ELSE 0
            /\ \A c \in CallsFor(lp, rp) :
                 /\ Len(c.localData) = Cardinality(EdgesTo(lp, rp))
                 /\ \A k \in 1..Len(c.localData) :
                      \E i \in EdgesTo(lp, rp) :
                          /\ Cardinality({j \in EdgesTo(lp, rp) : j <= i}) = k
                          /\ c.localData[k] = edgeKey(lp, req.edges[lp][i])

\* Two edges of one partition went into two chains, both submitted.
C22_Witness ==
    /\ epc = "done"
    /\ Cardinality(txnCalls) = 2
    /\ \A c \in txnCalls : c.localPart = 1 /\ Len(c.localData) = 1

\* C23: every addSamePartEdges call of a request carries the inner
\* processor if and only if getEdgeIndexes returned at least one index.
C23_InnerProcessorIffIndexed ==
    \A c \in txnCalls :
        /\ c.processor = "indexed" <=> stIndex = "nonEmpty"
        /\ c.processor = "null" <=> stIndex = "empty"

\* Two chains were submitted in a space without an edge index.
C23_Witness ==
    /\ stIndex = "empty"
    /\ Cardinality(txnCalls) = 2
    /\ \A c \in txnCalls : c.processor = "null"

\* C26: a callback that writes codes_ holds lock_, so no two chain
\* completions are inside pushResultCode together and no failure entry is
\* lost: every chain whose continuation has run and failed has its entry.
C26_CodesUnderLock ==
    /\ \A cid \in DOMAIN chains : chains[cid].state = "pushing" => cid \in lock_
    /\ Cardinality({cid \in DOMAIN chains : chains[cid].state = "pushing"}) <= 1
    /\ Len(codes_) >= Cardinality({cid \in DOMAIN chains :
                                      /\ chains[cid].state = "recorded"
                                      /\ ResolvedCode(cid) # "SUCCEEDED"})

\* The code processByChain records for an edge that fails.
FailureCode(e) ==
    IF e.outcome = "encodeFault" THEN "E_DATA_TYPE_MISMATCH"
    ELSE "E_SPACE_NOT_FOUND"

\* C30: after an abort, a partition whose edges all succeed has every edge
\* encoded and no failure entry; a partition with a failing edge has one
\* entry, with the code of its first failing edge, and no edge behind that
\* one is encoded; there is no other entry.
C30_AbortPerPartition ==
    (stVidLen = "ok" /\ \E p \in req.listed : FailingIn(p) # {}) =>
        /\ \A p \in req.listed :
             IF FailingIn(p) = {}
             THEN /\ EntriesOf(p) = {}
                  /\ \A i \in 1..Len(req.edges[p]) :
                       \E c \in encoded : c.part = p /\ c.idx = i
             ELSE /\ Cardinality(EntriesOf(p)) = 1
                  /\ \A i \in EntriesOf(p) :
                       codes_[i].code
                           = FailureCode(req.edges[p][FirstFailingIn(p)])
                  /\ \A c \in encoded : c.part = p => c.idx <= FirstFailingIn(p)
        /\ Len(codes_) = Cardinality({p \in req.listed : FailingIn(p) # {}})

\* Both partitions have a failing edge: two entries.
C30_Witness ==
    /\ stVidLen = "ok"
    /\ epc = "done"
    /\ \A p \in Parts : FailingIn(p) # {}
    /\ Len(codes_) = 2

-----------------------------------------------------------------------------
(***************************************************************************)
(* The meta daemon's signal handler.                                       *)
(***************************************************************************)

\* C27 as stated: every SIGINT or SIGTERM handled after the handler is
\* installed calls stop() and then shutDown(); another signal calls
\* nothing and changes no state.
C27_StopThenShutDown ==
    \A i \in 1..Len(sigLog) :
        IF sigLog[i].sig \in {"SIGINT", "SIGTERM"}
        THEN sigLog[i].calls = <<"stop", "shutDown">>
        ELSE sigLog[i].calls = <<>>

\* C27: a SIGINT or SIGTERM handled once gServer exists calls stop() and
\* then shutDown(); handled before gServer is created it calls shutDown()
\* only; another signal calls nothing; the job manager is shut down exactly
\* when such a signal was handled, and the server stops only after one.
C27_StopIfServerThenShutDown ==
    /\ \A i \in 1..Len(sigLog) :
         IF sigLog[i].sig \in {"SIGINT", "SIGTERM"}
         THEN IF sigLog[i].server # "null"
              THEN sigLog[i].calls = <<"stop", "shutDown">>
              ELSE sigLog[i].calls = <<"shutDown">>
         ELSE sigLog[i].calls = <<>>
    /\ (\E i \in 1..Len(sigLog) : sigLog[i].sig \in {"SIGINT", "SIGTERM"})
           <=> jobMgr = "shutDown"
    /\ gServer \in {"stopRequested", "stopping", "stopped"} =>
           \E i \in 1..Len(sigLog) :
               sigLog[i].sig \in {"SIGINT", "SIGTERM"} /\ sigLog[i].server # "null"

\* SIGHUP was ignored while serving, then SIGTERM stopped the server.
C27_Witness ==
    /\ Len(sigLog) = 2
    /\ sigLog[1].sig = "SIGHUP" /\ sigLog[1].server = "serving"
    /\ sigLog[2].sig = "SIGTERM" /\ sigLog[2].server = "serving"
    /\ dpc = "returned"


-----------------------------------------------------------------------------
(***************************************************************************)
(* The lookup planner: the WHERE clause and the order of the plan.         *)
(***************************************************************************)

\* The columns the filter expression of a context reads.
FilterColumns(f) == IF f.isset /\ f.val = "c1 > 1" THEN {"c1"} ELSE {}

\* The filter of the request's context at position i reads a column that
\* is no field of the context's index.
FiltersNonIndexed(i) ==
    FilterColumns(lreq.contexts[i].filter)
        \ Range(get_fields(lreq.contexts[i].index_id)) # {}

\* The position in p of the node with the given kind for context i, or 0.
PositionOf(p, i, kinds) ==
    IF \E j \in 1..Len(p) : p[j].ctx = i /\ p[j].kind \in kinds
    THEN CHOOSE j \in 1..Len(p) : p[j].ctx = i /\ p[j].kind \in kinds
    ELSE 0

\* C31: in a returned plan, a context whose filter reads a non-indexed
\* column has a data-fetch node, placed before its filter node, whatever
\* the return columns.
C31_FetchForNonIndexedWhere ==
    Planned =>
        \A i \in 1..Len(lreq.contexts) :
            FiltersNonIndexed(i) =>
                /\ HasFetch(planRet.plan, i)
                /\ PositionOf(planRet.plan, i, {"IndexEdge", "IndexVertex"})
                       < PositionOf(planRet.plan, i, {"IndexFilter"})

\* C32: in a returned plan no two nodes are the same, and every dependency
\* of a node is a node of the plan that stands before it: the order of the
\* plan is a topological order of the dependencies, which have no cycle;
\* within a context the scan precedes the fetch, the fetch the filter, the
\* filter the output, and every output precedes the aggregate.
C32_PlanTopologicalOrder ==
    Planned =>
        LET p == planRet.plan
        IN  /\ \A j, k \in 1..Len(p) : NodeId(p[j]) = NodeId(p[k]) => j = k
            /\ \A j \in 1..Len(p) :
                 \A d \in Range(p[j].deps) :
                     \E k \in 1..(j - 1) : NodeId(p[k]) = d
            /\ \A i \in 1..Len(lreq.contexts) :
                 LET scan == PositionOf(p, i, {"IndexScan"})
                     fetch == PositionOf(p, i, {"IndexEdge", "IndexVertex"})
                     filter == PositionOf(p, i, {"IndexFilter"})
                     output == PositionOf(p, i, {"IndexOutput"})
                 IN  /\ 0 < scan /\ scan < output
                     /\ fetch # 0 => (scan < fetch /\ fetch < output)
                     /\ filter # 0 => (scan < filter /\ filter < output)
                     /\ (fetch # 0 /\ filter # 0) => fetch < filter
                     /\ output < PositionOf(p, 0, {"Aggregate"})

\* A plan of two contexts, each with scan, fetch, filter and output.
C32_Witness ==
    /\ Planned
    /\ Len(lreq.contexts) = 2
    /\ Len(planRet.plan) = 9


-----------------------------------------------------------------------------
(***************************************************************************)
(* The atomic edge writer: termination.                                    *)
(***************************************************************************)

\* C33: for every request and on every path, onFinished is invoked at some
\* point, and it is never invoked a second time.
C33_OnFinishedEventuallyOnce ==
    /\ <>(onFinishedCalls = 1)
    /\ [](onFinishedCalls <= 1)
    /\ [][onFinishedCalls' >= onFinishedCalls]_vars

\* A request without edges went past the index lookup: no chain, finished.
C33_Witness ==
    /\ onFinishedCalls = 1
    /\ stIndex \in {"empty", "nonEmpty"}
    /\ DOMAIN chains = {}
    /\ req.listed # {}


-----------------------------------------------------------------------------
(***************************************************************************)
(* The Base Processor: the counter of outstanding callbacks.               *)
(***************************************************************************)

\* The callbacks whose handleAsync has not yet decremented the counter.
Outstanding == {p \in DOMAIN cb : cb[p].pc \in {"inflight", "handle", "load", "store"}}

\* The callbacks inside the scope of handleAsync's lock_guard.
InGuard == {p \in DOMAIN cb : cb[p].pc \in {"handle", "load", "store", "unlock"}}

\* C34: callingNum_ is always the number of callbacks that have not yet
\* decremented it, so it is never negative and is 0 exactly when the last
\* callback has been handled; a callback between its entry and the end of
\* the guard holds lock_; and every change of the counter is a decrement
\* by one, made by the holder of lock_.
C34_CallingNumCountsOutstanding ==
    /\ [](/\ callingNum_ = Cardinality(Outstanding)
          /\ callingNum_ >= 0
          /\ callingNum_ = 0 <=> Outstanding = {}
          /\ lock_ = InGuard
          /\ Cardinality(lock_) <= 1)
    /\ [][callingNum_' # callingNum_ =>
             /\ callingNum_' = callingNum_ - 1
             /\ \E p \in lock_ : cb[p].pc = "store" /\ cb'[p].pc = "unlock"]_vars

\* Three callbacks: two have decremented the counter, the third is about
\* to write it.
C34_Witness ==
    /\ Cardinality(DOMAIN cb) = 3
    /\ callingNum_ = 1
    /\ \E p \in DOMAIN cb : cb[p].pc = "store" /\ cb[p].reg = 1


-----------------------------------------------------------------------------
(***************************************************************************)
(* The meta daemon's start: progress of the cluster-id phase.              *)
(***************************************************************************)

\* C35: when nothing fails, every replica leaves the cluster-id phase in
\* the end, with a non-zero gClusterId unless its put was refused because
\* it had lost the leadership; so the replicas are never all in the
\* follower loop with the key absent.
C35_EveryReplicaGetsClusterId ==
    \A r \in Replicas :
        <>(\/ mpc[r] \in {"upgrade", "inited"} /\ gClusterId[r] # 0
           \/ mpc[r] = "exit")

=============================================================================
